---- MODULE Spec2Model ----
(***************************************************************************)
(* Model of the bot-configuration validator (bot_validator.py) and of its  *)
(* callers in main.py.  A bot document is a JSON tree; Python values are   *)
(* modelled as tagged records, Python strings as sequences of one-         *)
(* character strings (fixed template text of an f-string is one piece).    *)
(***************************************************************************)
EXTENDS Integers, Sequences, FiniteSets, TLC

(***************************************************************************)
(* Python values.                                                          *)
(***************************************************************************)
PyNone == [ty |-> "none"]
PyInt(n) == [ty |-> "int", v |-> n]
PyStr(s) == [ty |-> "str", v |-> s]
PyList(l) == [ty |-> "list", v |-> l]
PyDict(d) == [ty |-> "dict", v |-> d]

\* the absent value of dict.get(key) with no default
Absent == [ty |-> "absent"]

IsDict(x) == x.ty = "dict"
IsList(x) == x.ty = "list"
IsStr(x) == x.ty = "str"

\* key in dict
HasKey(d, k) == IsDict(d) /\ k \in DOMAIN d.v

\* dict.get(key, default)
Get(d, k, default) == IF k \in DOMAIN d.v THEN d.v[k] ELSE default

\* truth value of a Python value (bool(x))
Truthy(x) ==
    CASE x.ty = "none" -> FALSE
      [] x.ty = "absent" -> FALSE
      [] x.ty = "int" -> x.v # 0
      [] x.ty = "str" -> Len(x.v) > 0
      [] x.ty = "list" -> Len(x.v) > 0
      [] x.ty = "dict" -> DOMAIN x.v # {}

\* type(x).__name__
TyName(x) == IF x.ty = "none" THEN "NoneType" ELSE x.ty

\* hash(x) is defined: lists and dicts are unhashable
Hashable(x) == x.ty \in {"none", "int", "str"}

(***************************************************************************)
(* Sequences and strings.                                                  *)
(***************************************************************************)
RECURSIVE SeqToSet(_)
SeqToSet(s) == IF s = <<>> THEN {} ELSE {Head(s)} \cup SeqToSet(Tail(s))

Lower == {"a","b","c","d","e","f","g","h","i","j","k","l","m",
          "n","o","p","q","r","s","t","u","v","w","x","y","z"}
Upper == {"A","B","C","D","E","F","G","H","I","J","K","L","M",
          "N","O","P","Q","R","S","T","U","V","W","X","Y","Z"}
Digit == {"0","1","2","3","4","5","6","7","8","9"}
\* [a-zA-Z_]
IdStart == Lower \cup Upper \cup {"_"}
\* [a-zA-Z0-9_]
IdChar == IdStart \cup Digit
\* \s
WhiteSpace == {" ", "\t", "\n"}

\* s[i..j] (1-based, inclusive), empty when j < i
Slice(s, i, j) == IF j < i THEN <<>> ELSE SubSeq(s, i, j)

\* the string s has the string t at position i
MatchAt(s, i, t) ==
    /\ i >= 1
    /\ i + Len(t) - 1 <= Len(s)
    /\ \A k \in 1..Len(t) : s[i + k - 1] = t[k]

\* t in s (substring containment)
Contains(s, t) == \E i \in 1..(Len(s) + 1) : MatchAt(s, i, t)

\* s.endswith(t)
EndsWith(s, t) == Len(t) <= Len(s) /\ MatchAt(s, Len(s) - Len(t) + 1, t)

\* s.startswith(t)
StartsWith(s, t) == MatchAt(s, 1, t)

RECURSIVE LStrip(_)
LStrip(s) == IF s # <<>> /\ Head(s) \in WhiteSpace THEN LStrip(Tail(s)) ELSE s

RECURSIVE RStrip(_)
RStrip(s) ==
    IF s # <<>> /\ s[Len(s)] \in WhiteSpace
    THEN RStrip(SubSeq(s, 1, Len(s) - 1)) ELSE s

\* str.strip()
Strip(s) == RStrip(LStrip(s))

\* end (exclusive) of the maximal run of characters of class cls from i
RECURSIVE RunEnd(_, _, _)
RunEnd(s, i, cls) ==
    IF i <= Len(s) /\ s[i] \in cls THEN RunEnd(s, i + 1, cls) ELSE i

\* sep.join(parts)
RECURSIVE Join(_, _)
Join(sep, parts) ==
    IF parts = <<>> THEN <<>>
    ELSE IF Len(parts) = 1 THEN parts[1]
    ELSE parts[1] \o sep \o Join(sep, Tail(parts))

(***************************************************************************)
(* The three token extractions of the condition checker (re.findall).      *)
(***************************************************************************)
\* re.findall(r'\{\$([a-zA-Z0-9_]+)\}', cond)
RECURSIVE FindParamRefsFrom(_, _)
FindParamRefsFrom(s, i) ==
    IF i > Len(s) THEN <<>>
    ELSE IF MatchAt(s, i, <<"{", "$">>)
         THEN LET e == RunEnd(s, i + 2, IdChar)
              IN  IF e > i + 2 /\ e <= Len(s) /\ s[e] = "}"
                  THEN <<Slice(s, i + 2, e - 1)>> \o FindParamRefsFrom(s, e + 1)
                  ELSE FindParamRefsFrom(s, i + 1)
         ELSE FindParamRefsFrom(s, i + 1)

FindParamRefs(s) == FindParamRefsFrom(s, 1)

\* the alternatives of the operator pattern, in the order of the pattern
OperatorPattern ==
    << <<"=","=">>, <<"!","=">>, <<">","=">>, <<"<","=">>, <<">">>, <<"<">>,
       <<"E","X","I","S","T","S">>,
       <<"N","O","T"," ","E","X","I","S","T","S">>,
       <<"I","N">>, <<"N","O","T">>, <<"A","N","D">>, <<"O","R">>,
       <<"+">>, <<"-">>, <<"*">>, <<"/">> >>

\* the characters an alternative of the operator pattern starts with
OperatorStarts == {OperatorPattern[k][1] : k \in 1..Len(OperatorPattern)}

\* index of the first alternative of the operator pattern that matches s at
\* i, 0 if none (no alternative matches at a character that starts none)
FirstAlt(s, i) ==
    IF s[i] \notin OperatorStarts THEN 0
    ELSE LET hits == {k \in 1..Len(OperatorPattern) :
                         MatchAt(s, i, OperatorPattern[k])}
         IN  IF hits = {} THEN 0
             ELSE CHOOSE k \in hits : \A m \in hits : k <= m

\* re.findall(r'(==|!=|>=|<=|>|<|EXISTS|NOT EXISTS|IN|NOT|AND|OR|\+|\-|\*|/)', cond)
RECURSIVE FindOperatorsFrom(_, _)
FindOperatorsFrom(s, i) ==
    IF i > Len(s) THEN <<>>
    ELSE LET k == FirstAlt(s, i)
         IN  IF k = 0 THEN FindOperatorsFrom(s, i + 1)
             ELSE <<OperatorPattern[k]>>
                    \o FindOperatorsFrom(s, i + Len(OperatorPattern[k]))

FindOperators(s) == FindOperatorsFrom(s, 1)

\* re.findall(r'([a-zA-Z_][a-zA-Z0-9_]*)\s*\(', cond)
RECURSIVE FindFunctionsFrom(_, _)
FindFunctionsFrom(s, i) ==
    IF i > Len(s) THEN <<>>
    ELSE IF s[i] \in IdStart
         THEN LET e == RunEnd(s, i, IdChar)
                  p == RunEnd(s, e, WhiteSpace)
              IN  IF p <= Len(s) /\ s[p] = "("
                  THEN <<Slice(s, i, e - 1)>> \o FindFunctionsFrom(s, p + 1)
                  ELSE FindFunctionsFrom(s, i + 1)
         ELSE FindFunctionsFrom(s, i + 1)

FindFunctions(s) == FindFunctionsFrom(s, 1)

(***************************************************************************)
(* Python operations that can raise.                                       *)
(***************************************************************************)
NoExc == [kind |-> "none"]
TypeError(msg) == [kind |-> "TypeError", msg |-> msg]
AttributeError(msg) == [kind |-> "AttributeError", msg |-> msg]
ValueError(msg) == [kind |-> "ValueError", msg |-> msg]
Raised(e) == e.kind # "none"

\* the characters of the two keys that are looked up with 'in' in a value
\* that may be a string or a list
KeyChars(k) ==
    IF k = "context" THEN <<"c","o","n","t","e","x","t">>
    ELSE <<"f","l","o","w","s">>

\* 'for x in v' is defined
CanIter(x) == x.ty \in {"list", "str", "dict"}
NotIterable(x) == TypeError(<<"'", TyName(x), "' object is not iterable">>)

RECURSIVE SetToSeq(_)
SetToSeq(S) ==
    IF S = {} THEN <<>>
    ELSE LET x == CHOOSE y \in S : TRUE IN <<x>> \o SetToSeq(S \ {x})

\* the items 'for x in v' yields: the elements of a list, the characters of
\* a string, the keys of a dict
IterItems(x) ==
    CASE x.ty = "list" -> x.v
      [] x.ty = "str" -> [i \in 1..Len(x.v) |-> PyStr(<<x.v[i]>>)]
      [] x.ty = "dict" -> LET ks == SetToSeq(DOMAIN x.v)
                          IN  [i \in 1..Len(ks) |-> PyStr(<<ks[i]>>)]

\* key in x : [exc, val]
In(k, x) ==
    CASE x.ty = "dict" -> [exc |-> NoExc, val |-> k \in DOMAIN x.v]
      [] x.ty = "list" ->
            [exc |-> NoExc,
             val |-> \E i \in 1..Len(x.v) : x.v[i] = PyStr(KeyChars(k))]
      [] x.ty = "str" -> [exc |-> NoExc, val |-> Contains(x.v, KeyChars(k))]
      [] OTHER ->
            [exc |-> TypeError(<<"argument of type '", TyName(x),
                                 "' is not iterable">>),
             val |-> FALSE]

\* x[key] for a key that 'in' has found : [exc, val]
GetItem(x, k) ==
    CASE x.ty = "dict" -> [exc |-> NoExc, val |-> x.v[k]]
      [] x.ty = "list" ->
            [exc |-> TypeError(<<"list indices must be integers or slices, not str">>),
             val |-> PyNone]
      [] OTHER ->
            [exc |-> TypeError(<<"string indices must be integers">>),
             val |-> PyNone]

\* a + b : [exc, val]
Add(a, b) ==
    IF a.ty = b.ty /\ a.ty \in {"list", "str"}
    THEN [exc |-> NoExc, val |-> [ty |-> a.ty, v |-> a.v \o b.v]]
    ELSE IF a.ty = "int" /\ b.ty = "int"
    THEN [exc |-> NoExc, val |-> PyInt(a.v + b.v)]
    ELSE [exc |-> TypeError(<<"unsupported operand type(s) for +: '",
                              TyName(a), "' and '", TyName(b), "'">>),
          val |-> PyNone]

Unhashable(x) == TypeError(<<"unhashable type: '", TyName(x), "'">>)

(***************************************************************************)
(* str(x) as an f-string renders it.                                       *)
(***************************************************************************)
DigitStr == <<"0","1","2","3","4","5","6","7","8","9">>

RECURSIVE FormatInt(_)
FormatInt(n) ==
    IF n < 10 THEN <<DigitStr[n + 1]>>
    ELSE FormatInt(n \div 10) \o <<DigitStr[(n % 10) + 1]>>

RECURSIVE Repr(_)
RECURSIVE ReprItems(_)
ReprItems(l) ==
    IF l = <<>> THEN <<>>
    ELSE IF Len(l) = 1 THEN Repr(l[1])
    ELSE Repr(l[1]) \o <<",", " ">> \o ReprItems(Tail(l))

\* repr(x); the items of a non-empty dict are rendered as one piece
Repr(x) ==
    CASE x.ty = "none" -> <<"N","o","n","e">>
      [] x.ty = "int" -> FormatInt(x.v)
      [] x.ty = "str" -> <<"'">> \o x.v \o <<"'">>
      [] x.ty = "list" -> <<"[">> \o ReprItems(x.v) \o <<"]">>
      [] x.ty = "dict" ->
            IF DOMAIN x.v = {} THEN <<"{", "}">> ELSE <<"{", "...", "}">>

\* str(x)
Format(x) == IF x.ty = "str" THEN x.v ELSE Repr(x)

(***************************************************************************)
(* The allow-lists of validate_bot_json.                                   *)
(***************************************************************************)
\* an allow-list without the comparison '=='
allowed_operators_short ==
    { <<"/">>, <<"*">>, <<"+">>, <<"-">>, <<"!","=">>, <<">","=">>, <<"<","=">>,
      <<">">>, <<"<">>, <<"E","X","I","S","T","S">>,
      <<"N","O","T"," ","E","X","I","S","T","S">>, <<"I","N">>, <<"N","O","T">>,
      <<"A","N","D">>, <<"O","R">> }

allowed_operators ==
    { <<"/">>,
      <<"*">>,
      <<"+">>,
      <<"-">>,
      <<"=","=">>,
      <<"!","=">>,
      <<">","=">>,
      <<"<","=">>,
      <<">">>,
      <<"<">>,
      <<"E","X","I","S","T","S">>,
      <<"N","O","T"," ","E","X","I","S","T","S">>,
      <<"I","N">>,
      <<"N","O","T">>,
      <<"A","N","D">>,
      <<"O","R">> }

allowed_functions ==
    { <<"s","u","m">>,
      <<"g","e","t","N","u","m","b","e","r">>,
      <<"i","s","V","a","l","i","d","D","a","t","e","t","i","m","e">>,
      <<"g","e","t","L","e","n","g","t","h">>,
      <<"c","o","n","v","e","r","t","D","a","t","e","F","o","r","m","a","t">>,
      <<"a","d","d","D","a","y","s">>,
      <<"i","s","B","e","f","o","r","e">>,
      <<"t","r","i","m">>,
      <<"r","e","p","l","a","c","e","A","l","l">>,
      <<"m","e","r","g","e","S","t","r","i","n","g","s">>,
      <<"t","o","U","p","p","e","r">>,
      <<"t","o","L","o","w","e","r">> }

reserved_words ==
    { <<"T","r","u","e">>,
      <<"{","$","U","S","E","R","_","T","E","X","T","_","I","N","P","U","T","}">>,
      <<"{","$","_","_","N","L","U","_","I","N","T","E","N","T","_","_","}">>,
      <<"{","$","N","L","U","_","I","N","T","E","N","T","}">>,
      <<"S","L","O","T","_","F","I","L","L","I","N","G","_","C","O","M","P","L","E","T","E","D">>,
      <<"A","S","K","I","N","G","_","S","L","O","T">> }

\* the literals of the set allowed_event_types, in the order they are written
EventTypeLiterals ==
    << <<"N","O","_","M","A","T","C","H","_","E","V","E","N","T">>,
      <<"P","A","U","S","E","_","E","V","E","N","T">>,
      <<"W","A","K","E","_","E","V","E","N","T">>,
      <<"W","E","B","H","O","O","K","_","F","A","I","L","E","D","_","E","V","E","N","T">>,
      <<"U","S","E","R","_","D","I","A","L","O","G","_","S","T","A","R","T">>,
      <<"U","S","E","R","_","D","I","A","L","O","G","_","E","N","D">>,
      <<"U","S","E","R","_","D","I","A","L","O","G","_","W","A","I","T","_","T","I","M","E","O","U","T">>,
      <<"U","S","E","R","_","B","U","T","T","O","N","_","C","L","I","C","K">>,
      <<"U","S","E","R","_","F","I","L","E","_","U","P","L","O","A","D","_","S","U","C","C","E","S","S">>,
      <<"U","S","E","R","_","F","I","L","E","_","U","P","L","O","A","D","_","F","A","I","L">>,
      <<"U","S","E","R","_","T","R","A","N","S","F","E","R","_","A","G","E","N","T">>,
      <<"B","O","T","_","T","R","A","N","S","I","T","I","O","N","_","N","O","T","_","A","L","L","O","W","E","D">> >>

allowed_event_types == SeqToSet(EventTypeLiterals)

\* the literal handler types and the transition type
INTENT == <<"I","N","T","E","N","T">>
CONDITION == <<"C","O","N","D","I","T","I","O","N">>
EVENT == <<"E","V","E","N","T">>
CUSTOM == <<"C","U","S","T","O","M">>
\* a list of sentinels without __NLU_INTENT__
NluSentinelsShort == { <<"N","L","U","_","I","N","T","E","N","T">> }

\* the two parameter references that are never resolved
NluSentinels == { <<"_","_","N","L","U","_","I","N","T","E","N","T","_","_">>, <<"N","L","U","_","I","N","T","E","N","T">> }

(***************************************************************************)
(* Findings.  The fixed text of a message is one piece of the string.      *)
(***************************************************************************)
Finding(type, message, location, suggestion) ==
    [type |-> type, message |-> message, location |-> location,
     suggestion |-> suggestion]

\* the document-wide location
DocWide == <<"overall">>

\* f"{flow_name} > {page_name}"
Location(flow_name, page_name) ==
    Format(flow_name) \o <<" ", ">", " ">> \o Format(page_name)

DataStructureErrorInvalid ==
    Finding("DataStructureError", <<"invalid data structure.">>, DocWide,
            <<"upload a valid bot builder JSON file.">>)

DataStructureErrorFlows ==
    Finding("DataStructureError", <<"flows is not a list.">>, DocWide,
            <<"check the data structure.">>)

PageLinkError(target_page, loc) ==
    Finding("PageLinkError",
            <<"transition to a page that does not exist: ">> \o Format(target_page),
            loc,
            <<"'">> \o Format(target_page)
                \o <<"' check that the page exists or correct the page name.">>)

HandlerMissing(loc) ==
    Finding("HandlerMissing", <<"page without handlers">>, loc,
            <<"add the required event handler.">>)

IntentError(intent_name, loc) ==
    [type |-> "IntentError",
     message |-> <<"unregistered intent name used: ">> \o Format(intent_name),
     location |-> loc,
     suggestion |-> Format(intent_name) \o <<" is not a registered intent name.">>,
     used_intent |-> intent_name]

BooleanCasingError(cond, loc) ==
    [type |-> "ConditionError",
     message |-> <<"the condition True must be written exactly 'True'. found: '">>
                    \o cond \o <<"'">>,
     location |-> loc,
     suggestion |-> <<"change the condition '">> \o cond \o <<"' to 'True'.">>,
     used_condition |-> PyStr(cond)]

ConditionWarning(missing_vars, loc) ==
    [type |-> "ConditionWarning",
     message |-> <<"parameter name(s) referenced by the condition: ">>
                    \o Join(<<",", " ">>, missing_vars)
                    \o <<" not in parameterPresets, Intent, Entity.">>,
     location |-> loc,
     suggestion |-> Join(<<",", " ">>, missing_vars)
                    \o <<" variable is not registered.">>,
     missing_vars |-> missing_vars]

OperatorError(op, cond, loc) ==
    [type |-> "ConditionError",
     message |-> <<"operator that is not allowed: ">> \o op,
     location |-> loc,
     suggestion |-> <<"the condition uses the operator '">> \o op
                    \o <<"' that is not allowed. condition: '">> \o cond \o <<"'">>,
     used_condition |-> PyStr(cond)]

FunctionError(func, cond, loc) ==
    [type |-> "ConditionError",
     message |-> <<"function that is not allowed: ">> \o func,
     location |-> loc,
     suggestion |-> <<"the condition uses the function '">> \o func
                    \o <<"' that is not allowed. condition: '">> \o cond \o <<"'">>,
     used_condition |-> PyStr(cond)]

ConditionParseError(e, cond, loc) ==
    [type |-> "ConditionError",
     message |-> <<"condition parse error: ">> \o e.msg,
     location |-> loc,
     suggestion |-> <<"check the format of the condition.">>,
     used_condition |-> cond]

EventWarning(event_type, loc, order) ==
    Finding("EventWarning",
            <<"event type that is not allowed: ">> \o Format(event_type),
            loc,
            <<"use only the allowed event types: ">> \o Join(<<",", " ">>, order))

CustomCheck(check) ==
    Finding("CustomCheck", <<"custom check: ">> \o Format(check), DocWide,
            <<"add the check logic yourself.">>)

ValidationError(e) ==
    Finding("ValidationError", <<"error during validation: ">> \o e.msg, DocWide,
            <<"check the data structure and try again.">>)

(***************************************************************************)
(* Name registries.                                                        *)
(***************************************************************************)
\* the loop "for x in items: if isinstance(x, dict) and <name test>:
\* names.add(x['name'])", where the name test is x.get('name') (truthyOnly)
\* or 'name' in x : [exc, val]
RECURSIVE CollectNames(_, _, _)
CollectNames(items, truthyOnly, acc) ==
    IF items = <<>> THEN [exc |-> NoExc, val |-> acc]
    ELSE LET x == Head(items)
             take == /\ IsDict(x)
                     /\ "name" \in DOMAIN x.v
                     /\ (truthyOnly => Truthy(x.v.name))
         IN  IF ~take THEN CollectNames(Tail(items), truthyOnly, acc)
             ELSE IF ~Hashable(x.v.name)
                  THEN [exc |-> Unhashable(x.v.name), val |-> acc]
                  ELSE CollectNames(Tail(items), truthyOnly, acc \cup {x.v.name})

\* "for x in v: ..." over a value that may not be iterable
CollectNamesOf(v, truthyOnly, acc) ==
    IF ~CanIter(v) THEN [exc |-> NotIterable(v), val |-> acc]
    ELSE CollectNames(IterItems(v), truthyOnly, acc)

\* the declared intents: openIntents + userIntents
AllIntents(context) ==
    LET Collect(both) ==
            IF Raised(both.exc) THEN [exc |-> both.exc, val |-> {}]
            ELSE CollectNamesOf(both.val, TRUE, {})
    IN  Collect(Add(Get(context, "openIntents", PyList(<<>>)),
                    Get(context, "userIntents", PyList(<<>>))))

\* a collection loop that also reads the pages of a flow without name
CollectSkipsFlowUnnamed(flow) == ~IsDict(flow) \/ "pages" \notin DOMAIN flow.v

\* the guard of the page-name collection loop that skips a flow
CollectSkipsFlow(flow) ==
    ~IsDict(flow) \/ "name" \notin DOMAIN flow.v \/ "pages" \notin DOMAIN flow.v

\* the page-name collection pass
RECURSIVE CollectPageNames(_, _)
CollectPageNames(flows, acc) ==
    IF flows = <<>> THEN [exc |-> NoExc, val |-> acc]
    ELSE LET flow == Head(flows)
         IN  IF CollectSkipsFlow(flow) THEN CollectPageNames(Tail(flows), acc)
             ELSE LET Then(r) == IF Raised(r.exc) THEN r
                                 ELSE CollectPageNames(Tail(flows), r.val)
                  IN  Then(CollectNamesOf(flow.v.pages, FALSE, acc))

(***************************************************************************)
(* The condition checker: the body of the inner try of a CONDITION         *)
(* handler.  Each check returns the findings it appends.                   *)
(***************************************************************************)
\* the spellings of the boolean literal that the casing check rejects
RejectedTrueSpellings ==
    { <<"t","r","u","e">>, <<"T","R","U","E">>, <<"T","r","u","e"," ">> }

\* check 1: casing of the boolean literal
BooleanCasingCheck(cond, loc) ==
    LET stripped == Strip(cond)
    IN  IF /\ stripped # <<>>
           /\ stripped \notin reserved_words
           /\ stripped \in RejectedTrueSpellings
        THEN <<BooleanCasingError(cond, loc)>>
        ELSE <<>>

\* the references that resolve to nothing, in the order they occur
RECURSIVE MissingVars(_, _, _)
MissingVars(param_refs, known, sentinels) ==
    IF param_refs = <<>> THEN <<>>
    ELSE LET ref == Head(param_refs)
             rest == MissingVars(Tail(param_refs), known, sentinels)
         IN  IF ref \in sentinels THEN rest
             ELSE IF PyStr(ref) \notin known THEN <<ref>> \o rest
             ELSE rest

\* a reference check that also resolves against the presets of the action
ParameterReferenceCheckWithAction(cond, handler, context, all_intents, loc) ==
    LET action == Get(handler, "action", PyDict(<<>>))
        declared == IF IsDict(action)
                    THEN CollectNamesOf(Get(action, "parameterPresets", PyList(<<>>)),
                                        FALSE, {}).val
                    ELSE {}
        Warning(missing_vars) ==
            [exc |-> NoExc,
             errors |-> IF missing_vars # <<>>
                        THEN <<ConditionWarning(missing_vars, loc)>>
                        ELSE <<>>]
        Entities(param_refs, presets, entities) ==
            IF Raised(entities.exc) THEN [exc |-> entities.exc, errors |-> <<>>]
            ELSE Warning(MissingVars(param_refs,
                                     presets.val \cup declared \cup all_intents
                                        \cup entities.val,
                                     NluSentinels))
        Presets(param_refs, presets) ==
            IF Raised(presets.exc) THEN [exc |-> presets.exc, errors |-> <<>>]
            ELSE Entities(param_refs, presets,
                          CollectNamesOf(Get(context, "customEntities", PyList(<<>>)),
                                         TRUE, {}))
    IN  Presets(FindParamRefs(cond),
                CollectNamesOf(Get(handler, "parameterPresets", PyList(<<>>)),
                               FALSE, {}))

\* check 2: parameter references : [exc, errors]
ParameterReferenceCheck(cond, handler, context, all_intents, loc) ==
    LET Warning(missing_vars) ==
            [exc |-> NoExc,
             errors |-> IF missing_vars # <<>>
                        THEN <<ConditionWarning(missing_vars, loc)>>
                        ELSE <<>>]
        Entities(param_refs, presets, entities) ==
            IF Raised(entities.exc) THEN [exc |-> entities.exc, errors |-> <<>>]
            ELSE Warning(MissingVars(param_refs,
                                     presets.val \cup all_intents \cup entities.val,
                                     NluSentinels))
        Presets(param_refs, presets) ==
            IF Raised(presets.exc) THEN [exc |-> presets.exc, errors |-> <<>>]
            ELSE Entities(param_refs, presets,
                          CollectNamesOf(Get(context, "customEntities", PyList(<<>>)),
                                         TRUE, {}))
    IN  Presets(FindParamRefs(cond),
                CollectNamesOf(Get(handler, "parameterPresets", PyList(<<>>)),
                               FALSE, {}))

\* check 3: operators
RECURSIVE OperatorCheck(_, _, _)
OperatorCheck(ops, cond, loc) ==
    IF ops = <<>> THEN <<>>
    ELSE (IF Head(ops) \notin allowed_operators
          THEN <<OperatorError(Head(ops), cond, loc)>> ELSE <<>>)
         \o OperatorCheck(Tail(ops), cond, loc)

\* check 4: functions
RECURSIVE FunctionCheck(_, _, _)
FunctionCheck(funcs, cond, loc) ==
    IF funcs = <<>> THEN <<>>
    ELSE (IF Head(funcs) \notin allowed_functions /\ Head(funcs) \notin reserved_words
          THEN <<FunctionError(Head(funcs), cond, loc)>> ELSE <<>>)
         \o FunctionCheck(Tail(funcs), cond, loc)

\* the try/except of a CONDITION handler with a truthy conditionStatement:
\* the findings appended before an exception stay, the exception becomes
\* one parse-error finding and ends the try block
CheckCondition(cond, handler, context, all_intents, loc) ==
    IF ~IsStr(cond)
    THEN <<ConditionParseError(
             AttributeError(<<"'", TyName(cond), "' object has no attribute 'strip'">>),
             cond, loc)>>
    ELSE LET Checks(c, casing, refs) ==
                 IF Raised(refs.exc)
                 THEN casing \o <<ConditionParseError(refs.exc, cond, loc)>>
                 ELSE casing \o refs.errors
                        \o OperatorCheck(FindOperators(c), c, loc)
                        \o FunctionCheck(FindFunctions(c), c, loc)
         IN  Checks(cond.v, BooleanCasingCheck(cond.v, loc),
                    ParameterReferenceCheck(cond.v, handler, context, all_intents,
                                            loc))

(***************************************************************************)
(* The rule engine: the loops over flows, pages and handlers.  Each loop   *)
(* returns [errors, exc]: the findings appended and the exception that     *)
(* ended it, if any.                                                       *)
(***************************************************************************)
\* the first handler loop of a page: transitionTarget
RECURSIVE CheckTransitionTargets(_, _, _, _)
CheckTransitionTargets(handlers, loc, page_names, acc) ==
    IF handlers = <<>> THEN [errors |-> acc, exc |-> NoExc]
    ELSE LET handler == Head(handlers)
             target == IF IsDict(handler)
                       THEN Get(handler, "transitionTarget", PyDict(<<>>))
                       ELSE PyNone
             page == IF IsDict(target) THEN Get(target, "page", PyNone) ELSE PyNone
         IN  IF /\ IsDict(handler)
                /\ IsDict(target)
                /\ Get(target, "type", PyNone) = PyStr(CUSTOM)
                /\ Truthy(page)
             THEN IF ~Hashable(page)
                  THEN [errors |-> acc, exc |-> Unhashable(page)]
                  ELSE CheckTransitionTargets(
                           Tail(handlers), loc, page_names,
                           IF page \notin page_names
                           THEN Append(acc, PageLinkError(page, loc)) ELSE acc)
             ELSE CheckTransitionTargets(Tail(handlers), loc, page_names, acc)

\* the INTENT rule of one handler : [errors, exc]
CheckIntentHandler(handler, all_intents, loc) ==
    LET intent_trigger == Get(handler, "intentTrigger", PyDict(<<>>))
        intent_name == IF IsDict(intent_trigger)
                       THEN Get(intent_trigger, "name", PyNone) ELSE PyNone
    IN  IF Get(handler, "type", PyStr(<<>>)) = PyStr(INTENT) /\ Truthy(intent_name)
        THEN IF ~Hashable(intent_name)
             THEN [errors |-> <<>>, exc |-> Unhashable(intent_name)]
             ELSE [errors |-> IF intent_name \notin all_intents
                              THEN <<IntentError(intent_name, loc)>> ELSE <<>>,
                   exc |-> NoExc]
        ELSE [errors |-> <<>>, exc |-> NoExc]

\* the EVENT rule of one handler : [errors, exc]
CheckEventHandler(handler, loc, order) ==
    LET event_trigger == Get(handler, "eventTrigger", PyDict(<<>>))
        event_type == IF IsDict(event_trigger)
                      THEN Get(event_trigger, "type", PyNone) ELSE PyNone
    IN  IF Get(handler, "type", PyStr(<<>>)) = PyStr(EVENT) /\ Truthy(event_type)
        THEN IF ~Hashable(event_type)
             THEN [errors |-> <<>>, exc |-> Unhashable(event_type)]
             ELSE [errors |-> IF ~(IsStr(event_type) /\ event_type.v \in allowed_event_types)
                              THEN <<EventWarning(event_type, loc, order)>> ELSE <<>>,
                   exc |-> NoExc]
        ELSE [errors |-> <<>>, exc |-> NoExc]

\* the body of the second handler loop for one handler : [errors, exc]
CheckHandler(handler, context, all_intents, loc, order) ==
    LET Condition(cond) ==
            IF Get(handler, "type", PyStr(<<>>)) = PyStr(CONDITION) /\ Truthy(cond)
            THEN CheckCondition(cond, handler, context, all_intents, loc)
            ELSE <<>>
        Rules(intent, condition, event) ==
            IF Raised(intent.exc) THEN intent
            ELSE [errors |-> intent.errors \o condition \o event.errors,
                  exc |-> event.exc]
    IN  Rules(CheckIntentHandler(handler, all_intents, loc),
              Condition(Get(handler, "conditionStatement", PyStr(<<>>))),
              CheckEventHandler(handler, loc, order))

\* the second handler loop of a page
RECURSIVE CheckHandlers(_, _, _, _, _, _)
CheckHandlers(handlers, context, all_intents, loc, order, acc) ==
    IF handlers = <<>> THEN [errors |-> acc, exc |-> NoExc]
    ELSE IF ~IsDict(Head(handlers))
    THEN CheckHandlers(Tail(handlers), context, all_intents, loc, order, acc)
    ELSE LET Then(r) ==
                 IF Raised(r.exc) THEN [errors |-> acc \o r.errors, exc |-> r.exc]
                 ELSE CheckHandlers(Tail(handlers), context, all_intents, loc,
                                    order, acc \o r.errors)
         IN  Then(CheckHandler(Head(handlers), context, all_intents, loc, order))

\* a page whose handler loop runs before its transitionTarget loop
CheckPageHandlersFirst(page, flow_name, context, page_names, all_intents, order) ==
    LET Missing(loc) == IF ~Truthy(Get(page, "handlers", PyNone))
                        THEN <<HandlerMissing(loc)>> ELSE <<>>
        Links(loc, handlers, checked) ==
            IF Raised(checked.exc) THEN checked
            ELSE CheckTransitionTargets(IterItems(handlers), loc, page_names,
                                        checked.errors \o Missing(loc))
        Loops(loc, handlers) ==
            IF ~CanIter(handlers)
            THEN [errors |-> <<>>, exc |-> NotIterable(handlers)]
            ELSE Links(loc, handlers,
                       CheckHandlers(IterItems(handlers), context, all_intents,
                                     loc, order, <<>>))
    IN  Loops(Location(flow_name, page.v.name),
              Get(page, "handlers", PyList(<<>>)))

\* the checks of one well-formed page : [errors, exc]
CheckPage(page, flow_name, context, page_names, all_intents, order) ==
    LET Missing(loc) == IF ~Truthy(Get(page, "handlers", PyNone))
                        THEN <<HandlerMissing(loc)>> ELSE <<>>
        Rules(loc, handlers, links) ==
            IF Raised(links.exc) THEN links
            ELSE CheckHandlers(IterItems(handlers), context, all_intents,
                               loc, order, links.errors \o Missing(loc))
        Loops(loc, handlers) ==
            IF ~CanIter(handlers)
            THEN [errors |-> <<>>, exc |-> NotIterable(handlers)]
            ELSE Rules(loc, handlers,
                       CheckTransitionTargets(IterItems(handlers), loc,
                                              page_names, <<>>))
    IN  Loops(Location(flow_name, page.v.name),
              Get(page, "handlers", PyList(<<>>)))

\* the guard of the page loop that skips a page
CheckSkipsPage(page) == ~IsDict(page) \/ "name" \notin DOMAIN page.v

\* the page loop of one flow
RECURSIVE CheckPages(_, _, _, _, _, _, _)
CheckPages(pages, flow_name, context, page_names, all_intents, order, acc) ==
    IF pages = <<>> THEN [errors |-> acc, exc |-> NoExc]
    ELSE IF CheckSkipsPage(Head(pages))
    THEN CheckPages(Tail(pages), flow_name, context, page_names, all_intents,
                    order, acc)
    ELSE LET Then(r) ==
                 IF Raised(r.exc) THEN [errors |-> acc \o r.errors, exc |-> r.exc]
                 ELSE CheckPages(Tail(pages), flow_name, context, page_names,
                                 all_intents, order, acc \o r.errors)
         IN  Then(CheckPage(Head(pages), flow_name, context, page_names,
                            all_intents, order))

\* the guard of the flow loop that skips a flow
CheckSkipsFlow(flow) ==
    ~IsDict(flow) \/ "name" \notin DOMAIN flow.v \/ "pages" \notin DOMAIN flow.v

\* the flow loop
RECURSIVE CheckFlows(_, _, _, _, _, _)
CheckFlows(flows, context, page_names, all_intents, order, acc) ==
    IF flows = <<>> THEN [errors |-> acc, exc |-> NoExc]
    ELSE LET flow == Head(flows)
         IN  IF CheckSkipsFlow(flow)
             THEN CheckFlows(Tail(flows), context, page_names, all_intents, order, acc)
             ELSE IF ~CanIter(flow.v.pages)
             THEN [errors |-> acc, exc |-> NotIterable(flow.v.pages)]
             ELSE LET Then(r) ==
                          IF Raised(r.exc) THEN r
                          ELSE CheckFlows(Tail(flows), context, page_names,
                                          all_intents, order, r.errors)
                  IN  Then(CheckPages(IterItems(flow.v.pages), flow.v.name, context,
                                      page_names, all_intents, order, acc))

\* the custom checks : [errors, exc]
RECURSIVE CustomChecksOf(_)
CustomChecksOf(checks) ==
    IF checks = <<>> THEN <<>>
    ELSE <<CustomCheck(Head(checks))>> \o CustomChecksOf(Tail(checks))

CheckCustom(custom_checks) ==
    IF ~Truthy(custom_checks) THEN [errors |-> <<>>, exc |-> NoExc]
    ELSE IF ~CanIter(custom_checks)
    THEN [errors |-> <<>>, exc |-> NotIterable(custom_checks)]
    ELSE [errors |-> CustomChecksOf(IterItems(custom_checks)), exc |-> NoExc]

\* the rules, once data['context']['flows'] is known to be a list
RunRules(context, flows, custom_checks, order) ==
    LET Custom(checked, custom) ==
            IF Raised(checked.exc) THEN checked
            ELSE [errors |-> checked.errors \o custom.errors, exc |-> custom.exc]
        Rules(intents, names) ==
            IF Raised(intents.exc) THEN [errors |-> <<>>, exc |-> intents.exc]
            ELSE IF Raised(names.exc) THEN [errors |-> <<>>, exc |-> names.exc]
            ELSE Custom(CheckFlows(flows.v, context, names.val, intents.val,
                                   order, <<>>),
                        CheckCustom(custom_checks))
    IN  Rules(AllIntents(context), CollectPageNames(flows.v, {}))

\* the top-level shape test: "not data or 'context' not in data or
\* 'flows' not in data['context']" : [exc, val, context]
ShapeTest(data) ==
    IF ~Truthy(data) THEN [exc |-> NoExc, val |-> TRUE, context |-> PyNone]
    ELSE LET Flows(ctx, hasFlows) ==
                 IF Raised(ctx.exc)
                 THEN [exc |-> ctx.exc, val |-> FALSE, context |-> PyNone]
                 ELSE IF Raised(hasFlows.exc)
                 THEN [exc |-> hasFlows.exc, val |-> FALSE, context |-> PyNone]
                 ELSE [exc |-> NoExc, val |-> ~hasFlows.val, context |-> ctx.val]
             Context(hasContext, ctx) ==
                 IF Raised(hasContext.exc)
                 THEN [exc |-> hasContext.exc, val |-> FALSE, context |-> PyNone]
                 ELSE IF ~hasContext.val
                 THEN [exc |-> NoExc, val |-> TRUE, context |-> PyNone]
                 ELSE Flows(ctx, In("flows", ctx.val))
         IN  Context(In("context", data), GetItem(data, "context"))

\* the body of the outer try : [errors, exc]
ValidateTry(data, custom_checks, order) ==
    LET Rules(shape, flows) ==
            IF Raised(flows.exc) THEN [errors |-> <<>>, exc |-> flows.exc]
            ELSE IF ~IsList(flows.val)
            THEN [errors |-> <<DataStructureErrorFlows>>, exc |-> NoExc]
            ELSE RunRules(shape.context, flows.val, custom_checks, order)
        Shape(shape) ==
            IF Raised(shape.exc) THEN [errors |-> <<>>, exc |-> shape.exc]
            ELSE IF shape.val
            THEN [errors |-> <<DataStructureErrorInvalid>>, exc |-> NoExc]
            ELSE Rules(shape, GetItem(shape.context, "flows"))
    IN  Shape(ShapeTest(data))

\* a handler that catches AttributeError only
ExceptAttributeError(e) == e.kind = "AttributeError"

\* "except Exception" catches every exception the body can raise
ExceptException(e) == e.kind \in {"TypeError", "AttributeError", "ValueError"}

\* validate_bot_json(data, custom_checks): the findings returned, and the
\* exception that leaves the function, if any
ValidateBotJson(data, custom_checks, order) ==
    LET Except(body) ==
            IF ~Raised(body.exc) THEN [errors |-> body.errors, raised |-> NoExc]
            ELSE IF ExceptException(body.exc)
            THEN [errors |-> Append(body.errors, ValidationError(body.exc)),
                  raised |-> NoExc]
            ELSE [errors |-> body.errors, raised |-> body.exc]
    IN  Except(ValidateTry(data, custom_checks, order))

(***************************************************************************)
(* suggest_fixes and the suggestion oracle.                                *)
(***************************************************************************)
\* what the call of the chat service can do: fail, answer with a text, with
\* a text that carries the marker after white space, or answer with a
\* message whose content is None
OracleOutcomes ==
    { [ok |-> FALSE, text |-> <<"no network">>],
      [ok |-> TRUE, text |-> <<" ", "f", "i", "x">>],
      [ok |-> TRUE, text |-> <<" ", "AI suggestion:", " ", "o", "k">>],
      [ok |-> TRUE, text |-> <<>>, none |-> TRUE] }

\* the exception of a failed call of the service
APIError(msg) == [kind |-> "APIError", msg |-> msg]

\* the body of the try of openai_suggest_fix : [exc, val]
OracleTry(outcome) ==
    IF ~outcome.ok THEN [exc |-> APIError(outcome.text), val |-> <<>>]
    ELSE IF "none" \in DOMAIN outcome
    THEN [exc |-> AttributeError(<<"'NoneType' object has no attribute 'strip'">>),
          val |-> <<>>]
    ELSE [exc |-> NoExc, val |-> Strip(outcome.text)]

\* a handler that catches AttributeError only
OracleExceptAttributeError(e) == e.kind = "AttributeError"

\* the "except Exception" of openai_suggest_fix
OracleExcept(e) == Raised(e)

KeyNotSet == <<"[OpenAI API key is not set.]">>
OracleError(e) == <<"[OpenAI error: ">> \o e.msg \o <<"]">>

\* openai_suggest_fix(error_context, prompt), given whether the credential
\* is set and what the call of the service does : [exc, val], the text
\* returned and the exception that leaves the function, if any
openai_suggest_fix(api_key, outcome) ==
    LET Except(body) ==
            IF ~Raised(body.exc) THEN body
            ELSE IF OracleExcept(body.exc)
            THEN [exc |-> NoExc, val |-> OracleError(body.exc)]
            ELSE body
    IN  IF ~api_key THEN [exc |-> NoExc, val |-> KeyNotSet]
        ELSE Except(OracleTry(outcome))

\* the finding kinds sent to the oracle when use_openai is set
OracleKinds == {"ConditionError", "PageLinkError", "IntentError"}

\* the prefix that marks a suggestion of the oracle
AiPrefix == <<"AI suggestion:">>

\* the marker is added to every text
WithAiPrefixAlways(ai_suggestion) == AiPrefix \o <<" ">> \o ai_suggestion

\* the marker is added unless the text starts with it
WithAiPrefix(ai_suggestion) ==
    IF ~StartsWith(Strip(ai_suggestion), AiPrefix)
    THEN AiPrefix \o <<" ">> \o ai_suggestion
    ELSE ai_suggestion

\* the branches of the loop body of suggest_fixes without the oracle: what is
\* appended to suggestions for one finding (nothing for the other kinds)
LocalSuggestion(err) ==
    CASE err.type = "PageLinkError" ->
            <<err.location \o <<" has the error '">> \o err.message \o <<"'. '">>
                \o err.suggestion \o <<"'">> >>
      [] err.type = "HandlerMissing" ->
            <<err.location
                \o <<" has no handler. add a basic handler such as 'USER_DIALOG_START'.">> >>
      [] err.type = "ConditionError" ->
            <<err.location \o <<": check the condition. '">> \o err.suggestion
                \o <<"'">> >>
      [] err.type = "CustomCheck" -> << <<"custom check item: ">> \o err.message >>
      [] OTHER -> <<>>

\* the finding is sent to the oracle
UsesOracle(err, use_openai) == use_openai /\ err.type \in OracleKinds

\* one iteration of the loop of suggest_fixes: the suggestions after it
SuggestOne(suggestions, err, use_openai, api_key, outcome) ==
    IF UsesOracle(err, use_openai)
    THEN Append(suggestions, WithAiPrefix(openai_suggest_fix(api_key, outcome).val))
    ELSE suggestions \o LocalSuggestion(err)

(***************************************************************************)
(* analyze_bot_json: the pages, handlers and variables of a document.  The *)
(* loops thread acc = [exc, pages, handlers, variables]; variables is the  *)
(* set the code fills.                                                     *)
(***************************************************************************)
\* "for preset in v: if isinstance(preset, dict) and 'name' in preset:
\* variables.add(preset['name'])"
AnalyzePresets(v, acc) ==
    LET Added(names) == [acc EXCEPT !.exc = names.exc, !.variables = names.val]
    IN  Added(CollectNamesOf(v, FALSE, acc.variables))

\* the body of the handler loop for one handler
AnalyzeHandler(handler, acc) ==
    IF ~IsDict(handler) THEN acc
    ELSE LET action == Get(handler, "action", PyDict(<<>>))
             Own(a) ==
                 IF Raised(a.exc) THEN a
                 ELSE AnalyzePresets(Get(handler, "parameterPresets", PyList(<<>>)), a)
             OfAction(a) ==
                 IF IsDict(action)
                 THEN AnalyzePresets(Get(action, "parameterPresets", PyList(<<>>)), a)
                 ELSE a
         IN  Own(OfAction([acc EXCEPT !.handlers = Append(@, handler)]))

RECURSIVE AnalyzeHandlers(_, _)
AnalyzeHandlers(items, acc) ==
    IF items = <<>> \/ Raised(acc.exc) THEN acc
    ELSE AnalyzeHandlers(Tail(items), AnalyzeHandler(Head(items), acc))

\* the guard of the page loop of analyze_bot_json that skips a page
AnalyzeSkipsPage(page) == ~IsDict(page) \/ "name" \notin DOMAIN page.v

\* the body of the page loop for one page
AnalyzePage(flow_name, page, acc) ==
    IF AnalyzeSkipsPage(page) THEN acc
    ELSE LET Handlers(hs, a) ==
                 IF ~CanIter(hs) THEN [a EXCEPT !.exc = NotIterable(hs)]
                 ELSE AnalyzeHandlers(IterItems(hs), a)
         IN  Handlers(Get(page, "handlers", PyList(<<>>)),
                      [acc EXCEPT !.pages = Append(@, <<flow_name, page.v.name>>)])

RECURSIVE AnalyzePages(_, _, _)
AnalyzePages(flow_name, items, acc) ==
    IF items = <<>> \/ Raised(acc.exc) THEN acc
    ELSE AnalyzePages(flow_name, Tail(items), AnalyzePage(flow_name, Head(items), acc))

\* the guard of the flow loop of analyze_bot_json that skips a flow
AnalyzeSkipsFlow(flow) ==
    ~IsDict(flow) \/ "name" \notin DOMAIN flow.v \/ "pages" \notin DOMAIN flow.v

\* the body of the flow loop for one flow
AnalyzeFlow(flow, acc) ==
    IF AnalyzeSkipsFlow(flow) THEN acc
    ELSE IF ~CanIter(flow.v.pages) THEN [acc EXCEPT !.exc = NotIterable(flow.v.pages)]
    ELSE AnalyzePages(flow.v.name, IterItems(flow.v.pages), acc)

RECURSIVE AnalyzeFlows(_, _)
AnalyzeFlows(items, acc) ==
    IF items = <<>> \/ Raised(acc.exc) THEN acc
    ELSE AnalyzeFlows(Tail(items), AnalyzeFlow(Head(items), acc))

\* the value returned by the except clause
AnalyzeDefault == [flows |-> <<>>, pages |-> <<>>, handlers |-> <<>>, variables |-> {}]

\* the body of the try : [exc, flows, pages, handlers, variables]
AnalyzeTry(data) ==
    LET Fail(e) == [exc |-> e] @@ AnalyzeDefault
        Done(flows, acc) ==
            [exc |-> acc.exc, flows |-> flows.v, pages |-> acc.pages,
             handlers |-> acc.handlers, variables |-> acc.variables]
        Walk(flows) ==
            IF Raised(flows.exc) THEN Fail(flows.exc)
            ELSE IF ~IsList(flows.val)
            THEN Fail(ValueError(<<"flows is not a list.">>))
            ELSE Done(flows.val,
                      AnalyzeFlows(flows.val.v,
                                   [exc |-> NoExc, pages |-> <<>>, handlers |-> <<>>,
                                    variables |-> {}]))
        Shape(shape) ==
            IF Raised(shape.exc) THEN Fail(shape.exc)
            ELSE IF shape.val THEN Fail(ValueError(<<"invalid data structure.">>))
            ELSE Walk(GetItem(shape.context, "flows"))
    IN  Shape(ShapeTest(data))

\* a handler that catches ValueError only
AnalyzeExceptValueError(e) == e.kind = "ValueError"

\* the "except Exception" of analyze_bot_json
AnalyzeExcept(e) == ExceptException(e)

\* analyze_bot_json(data): flows, pages, handlers and the set of variables
\* returned, and the exception that leaves the function, if any
analyze_bot_json(data) ==
    LET Except(body) ==
            IF ~Raised(body.exc)
            THEN [flows |-> body.flows, pages |-> body.pages,
                  handlers |-> body.handlers, variables |-> body.variables,
                  raised |-> NoExc]
            ELSE IF AnalyzeExcept(body.exc)
            THEN [raised |-> NoExc] @@ AnalyzeDefault
            ELSE [raised |-> body.exc] @@ AnalyzeDefault
    IN  Except(AnalyzeTry(data))

(***************************************************************************)
(* get_intent_entity_summary (main.py): the intent and entity tables of    *)
(* the summary tab and their findings.  A table is the list of its rows.   *)
(* Every block is a try whose except clause keeps what the block had       *)
(* collected when the exception was raised.                                *)
(***************************************************************************)
CommaSpace == <<",", " ">>

\* ", ".join(items) : [exc, val]
JoinValues(items) ==
    IF \E i \in 1..Len(items) : ~IsStr(items[i])
    THEN [exc |-> TypeError(<<"sequence item: expected str instance">>), val |-> <<>>]
    ELSE [exc |-> NoExc, val |-> Join(CommaSpace, [i \in 1..Len(items) |-> items[i].v])]

\* sentences[:3]
FirstThree(items) == SubSeq(items, 1, IF Len(items) < 3 THEN Len(items) ELSE 3)

IntentRow(name, example) == [intent_name |-> name, example |-> example]
EntityRow(name, rep, synonyms) ==
    [entity_name |-> name, representative |-> rep, synonyms |-> synonyms]

\* the body of the intent loop for one item; acc = [exc, names, rows]
SummarizeIntent(intent, acc) ==
    LET name == Get(intent, "name", PyNone)
        sentences == Get(intent, "sentences", PyList(<<>>))
        Row(example) ==
            IF Raised(example.exc)
            THEN [exc |-> example.exc, names |-> acc.names \cup {name},
                  rows |-> acc.rows]
            ELSE [exc |-> NoExc, names |-> acc.names \cup {name},
                  rows |-> Append(acc.rows, IntentRow(name, example.val))]
    IN  IF ~IsDict(intent) THEN acc
        ELSE IF ~Truthy(name) THEN acc
        ELSE IF ~Hashable(name) THEN [acc EXCEPT !.exc = Unhashable(name)]
        ELSE IF IsList(sentences) THEN Row(JoinValues(FirstThree(sentences.v)))
        ELSE Row([exc |-> NoExc, val |-> <<>>])

RECURSIVE SummarizeIntents(_, _)
SummarizeIntents(items, acc) ==
    IF items = <<>> \/ Raised(acc.exc) THEN acc
    ELSE SummarizeIntents(Tail(items), SummarizeIntent(Head(items), acc))

\* the first try block: intent_names and intents
IntentsBlock(context) ==
    LET Loop(both) ==
            IF Raised(both.exc) \/ ~CanIter(both.val)
            THEN [exc |-> NoExc, names |-> {}, rows |-> <<>>]
            ELSE SummarizeIntents(IterItems(both.val),
                                  [exc |-> NoExc, names |-> {}, rows |-> <<>>])
    IN  Loop(Add(Get(context, "openIntents", PyList(<<>>)),
                 Get(context, "userIntents", PyList(<<>>))))

\* the loop over the entityValues of the entity `name`
RECURSIVE SummarizeValues(_, _, _)
SummarizeValues(name, items, acc) ==
    IF items = <<>> \/ Raised(acc.exc) THEN acc
    ELSE LET v == Head(items)
             synonyms == Get(v, "synonyms", PyList(<<>>))
             Row(joined) ==
                 IF Raised(joined.exc) THEN [acc EXCEPT !.exc = joined.exc]
                 ELSE [acc EXCEPT !.rows =
                          Append(@, EntityRow(name,
                                              Get(v, "representative", PyStr(<<>>)),
                                              joined.val))]
         IN  SummarizeValues(name, Tail(items),
                 IF ~IsDict(v) THEN acc
                 ELSE IF IsList(synonyms) THEN Row(JoinValues(synonyms.v))
                 ELSE Row([exc |-> NoExc, val |-> <<>>]))

\* the body of the entity loop for one item; acc = [exc, names, rows]
SummarizeEntity(entity, acc) ==
    LET name == Get(entity, "name", PyNone)
        entity_values == Get(entity, "entityValues", PyList(<<>>))
    IN  IF ~IsDict(entity) THEN acc
        ELSE IF ~Truthy(name) THEN acc
        ELSE IF ~Hashable(name) THEN [acc EXCEPT !.exc = Unhashable(name)]
        ELSE IF IsList(entity_values)
        THEN SummarizeValues(name, entity_values.v,
                             [acc EXCEPT !.names = @ \cup {name}])
        ELSE [acc EXCEPT !.names = @ \cup {name}]

RECURSIVE SummarizeEntities(_, _)
SummarizeEntities(items, acc) ==
    IF items = <<>> \/ Raised(acc.exc) THEN acc
    ELSE SummarizeEntities(Tail(items), SummarizeEntity(Head(items), acc))

\* the second try block: entity_names and entities
EntitiesBlock(context) ==
    LET Loop(custom_entities) ==
            IF ~CanIter(custom_entities)
            THEN [exc |-> NoExc, names |-> {}, rows |-> <<>>]
            ELSE SummarizeEntities(IterItems(custom_entities),
                                   [exc |-> NoExc, names |-> {}, rows |-> <<>>])
    IN  Loop(Get(context, "customEntities", PyList(<<>>)))

DuplicateIntent == [error |-> <<"duplicate Intent name exists">>]
DuplicateEntity == [error |-> <<"duplicate Entity name exists">>]
UnusedIntent(names) == [error |-> <<"unused Intent: ">> \o names]
UnusedEntity(names) == [error |-> <<"unused Entity: ">> \o names]

\* "if len(intent_names) != len(intents)"
DuplicateIntents(intents) ==
    IF Cardinality(intents.names) # Len(intents.rows) THEN <<DuplicateIntent>>
    ELSE <<>>

\* the third try block: "if len(entity_names) != len(custom_entities)"
DuplicateEntities(context, entity_names) ==
    LET Compare(custom_entities) ==
            IF ~CanIter(custom_entities) THEN <<>>
            ELSE IF Cardinality(entity_names) # Len(IterItems(custom_entities))
            THEN <<DuplicateEntity>>
            ELSE <<>>
    IN  Compare(Get(context, "customEntities", PyList(<<>>)))

\* "for name in names: if name and name in cond: used.add(name)", names in
\* the order the set yields them : [exc, val]
RECURSIVE ScanNames(_, _, _)
ScanNames(names, cond, used) ==
    IF names = <<>> THEN [exc |-> NoExc, val |-> used]
    ELSE IF ~IsStr(Head(names))
    THEN [exc |-> TypeError(<<"'in <string>' requires string as left operand, not ",
                              TyName(Head(names))>>),
          val |-> used]
    ELSE ScanNames(Tail(names), cond,
                   IF Contains(cond.v, Head(names).v) THEN used \cup {Head(names)}
                   ELSE used)

\* the body of the handler loop; acc = [exc, used_intents, used_entities]
ScanHandler(handler, intent_order, entity_order, acc) ==
    LET cond == Get(handler, "conditionStatement", PyStr(<<>>))
        Entities(a, scanned) ==
            [a EXCEPT !.exc = scanned.exc, !.used_entities = scanned.val]
        Intents(a, scanned) ==
            IF Raised(scanned.exc)
            THEN [a EXCEPT !.exc = scanned.exc, !.used_intents = scanned.val]
            ELSE Entities([a EXCEPT !.used_intents = scanned.val],
                          ScanNames(entity_order, cond, a.used_entities))
        Condition(a) ==
            IF Raised(a.exc) \/ ~(Truthy(cond) /\ IsStr(cond)) THEN a
            ELSE Intents(a, ScanNames(intent_order, cond, a.used_intents))
        Trigger(intent_trigger) ==
            IF ~IsDict(intent_trigger) THEN acc
            ELSE IF ~Hashable(Get(intent_trigger, "name", PyNone))
            THEN [acc EXCEPT !.exc = Unhashable(Get(intent_trigger, "name", PyNone))]
            ELSE [acc EXCEPT !.used_intents =
                     @ \cup {Get(intent_trigger, "name", PyNone)}]
    IN  IF ~IsDict(handler) THEN acc
        ELSE Condition(Trigger(Get(handler, "intentTrigger", PyNone)))

RECURSIVE ScanHandlers(_, _, _, _)
ScanHandlers(items, intent_order, entity_order, acc) ==
    IF items = <<>> \/ Raised(acc.exc) THEN acc
    ELSE ScanHandlers(Tail(items), intent_order, entity_order,
                      ScanHandler(Head(items), intent_order, entity_order, acc))

RECURSIVE ScanPages(_, _, _, _)
ScanPages(items, intent_order, entity_order, acc) ==
    IF items = <<>> \/ Raised(acc.exc) THEN acc
    ELSE LET Handlers(handlers) ==
                 IF IsList(handlers)
                 THEN ScanHandlers(handlers.v, intent_order, entity_order, acc)
                 ELSE acc
         IN  ScanPages(Tail(items), intent_order, entity_order,
                       IF IsDict(Head(items))
                       THEN Handlers(Get(Head(items), "handlers", PyList(<<>>)))
                       ELSE acc)

RECURSIVE ScanFlows(_, _, _, _)
ScanFlows(items, intent_order, entity_order, acc) ==
    IF items = <<>> \/ Raised(acc.exc) THEN acc
    ELSE LET Pages(pages) ==
                 IF IsList(pages)
                 THEN ScanPages(pages.v, intent_order, entity_order, acc)
                 ELSE acc
         IN  ScanFlows(Tail(items), intent_order, entity_order,
                       IF IsDict(Head(items))
                       THEN Pages(Get(Head(items), "pages", PyList(<<>>)))
                       ELSE acc)

\* the fourth try block: used_intents and used_entities
UsedBlock(context, intent_order, entity_order) ==
    LET Loop(flows) ==
            IF ~CanIter(flows)
            THEN [exc |-> NoExc, used_intents |-> {}, used_entities |-> {}]
            ELSE ScanFlows(IterItems(flows), intent_order, entity_order,
                           [exc |-> NoExc, used_intents |-> {}, used_entities |-> {}])
    IN  Loop(Get(context, "flows", PyList(<<>>)))

\* the four empty tables
EmptySummary ==
    [intents |-> <<>>, entities |-> <<>>, intent_errors |-> <<>>,
     entity_errors |-> <<>>]

\* the end of the function: the unused names, joined in the order the two
\* difference sets yield them, and the four tables
SummaryReturn(context, intents, entities, unused_intents, unused_entities) ==
    LET Tables(ijoin, ejoin) ==
            IF Raised(ijoin.exc) THEN [raised |-> ijoin.exc] @@ EmptySummary
            ELSE IF Raised(ejoin.exc) THEN [raised |-> ejoin.exc] @@ EmptySummary
            ELSE [raised |-> NoExc,
                  intents |-> intents.rows,
                  entities |-> entities.rows,
                  intent_errors |->
                      DuplicateIntents(intents) \o
                      (IF unused_intents # <<>> THEN <<UnusedIntent(ijoin.val)>>
                       ELSE <<>>),
                  entity_errors |->
                      DuplicateEntities(context, entities.names) \o
                      (IF unused_entities # <<>> THEN <<UnusedEntity(ejoin.val)>>
                       ELSE <<>>)]
    IN  Tables(JoinValues(unused_intents), JoinValues(unused_entities))

\* list(variables), iteration over a set: the elements of the set in the
\* order of its hash table
ListsOf(S) ==
    { l \in [1..Cardinality(S) -> S] :
        \A i, j \in 1..Cardinality(S) : l[i] = l[j] => i = j }

\* the early returns of get_intent_entity_summary
SummaryReturnsEarly(data) ==
    \/ ~Truthy(data)
    \/ ~IsDict(data)
    \/ "context" \notin DOMAIN data.v
    \/ ~IsDict(data.v.context)

\* get_intent_entity_summary(data): the returns the function can make, one
\* for every order in which it can iterate over its sets
get_intent_entity_summary(data) ==
    IF SummaryReturnsEarly(data) THEN {[raised |-> NoExc] @@ EmptySummary}
    ELSE LET Return(context, intents, entities, used) ==
                 { SummaryReturn(context, intents, entities, ui, ue) :
                     ui \in ListsOf(intents.names \ used.used_intents),
                     ue \in ListsOf(entities.names \ used.used_entities) }
             Used(context, intents, entities) ==
                 UNION { Return(context, intents, entities,
                                UsedBlock(context, io, eo)) :
                           io \in ListsOf(intents.names),
                           eo \in ListsOf(entities.names) }
         IN  Used(data.v.context, IntentsBlock(data.v.context),
                  EntitiesBlock(data.v.context))

(***************************************************************************)
(* The documents the validator is run on.                                  *)
(***************************************************************************)
\* longest handler list of a page
MaxHandlers == 2
\* longest page list of a flow
MaxPages == 2
\* longest flow list of a document
MaxFlows == 2
\* longest condition, in tokens
MaxCondTokens == 2
\* longest openIntents list
MaxIntents == 2

RECURSIVE Concat(_)
Concat(ss) == IF ss = <<>> THEN <<>> ELSE Head(ss) \o Concat(Tail(ss))

P1 == <<"P","1">>
P2 == <<"P","2">>
Ghost == <<"G","h","o","s","t">>
F1 == <<"F","1">>
F2 == <<"F","2">>
Greeting == <<"G","r","e","e","t","i","n","g">>
NLU_INTENT == <<"N","L","U","_","I","N","T","E","N","T">>
UU_NLU_INTENT == <<"_","_","N","L","U","_","I","N","T","E","N","T","_","_">>

Named(n) == PyDict([name |-> PyStr(n)])
Link(type, page) ==
    PyDict([transitionTarget |-> PyDict([type |-> PyStr(type), page |-> page])])
ConditionHandler(cond) ==
    PyDict([type |-> PyStr(CONDITION), conditionStatement |-> cond])
IntentHandler(n) ==
    PyDict([type |-> PyStr(INTENT), intentTrigger |-> PyDict([name |-> n])])
EventHandler(e) ==
    PyDict([type |-> PyStr(EVENT), eventTrigger |-> PyDict([type |-> e])])
Page(n, hs) == PyDict([name |-> PyStr(n), handlers |-> PyList(hs)])
Flow(n, ps) == PyDict([name |-> PyStr(n), pages |-> PyList(ps)])
Doc(fs) == PyDict([context |-> PyDict([flows |-> PyList(fs)])])

FooCall == <<"f","o","o","(","1",")">>

\* handlers: well-formed ones of every type, and malformed ones
HandlerSet ==
    { Link(CUSTOM, PyStr(P1)), Link(CUSTOM, PyStr(Ghost)),
      Link(CUSTOM, PyStr(<<>>)), Link(<<"O">>, PyStr(Ghost)),
      Link(CUSTOM, PyList(<<PyStr(P1)>>)),
      PyDict([transitionTarget |-> PyStr(Ghost)]),
      PyStr(<<"h">>),
      EventHandler(PyStr(<<"B","A","D">>)),
      IntentHandler(PyStr(Greeting)),
      ConditionHandler(PyStr(FooCall)),
      ConditionHandler(PyStr(<<"{","$","x","}">>)),
      ConditionHandler(PyInt(5)),
      PyDict([type |-> PyStr(CONDITION), conditionStatement |-> PyStr(FooCall),
              parameterPresets |-> PyInt(5)]) }

\* pages: well-formed ones, and malformed ones
PageSet ==
    { Page(P1, <<>>), Page(P2, <<>>), Named(P1),
      Page(P1, <<Link(CUSTOM, PyStr(Ghost))>>), Page(P1, <<Link(CUSTOM, PyStr(P2))>>),
      Page(P2, <<Link(CUSTOM, PyStr(P1))>>), Page(P2, <<Link(CUSTOM, PyStr(P2))>>),
      Page(P2, <<Link(CUSTOM, PyStr(Ghost))>>),
      Page(P1, <<ConditionHandler(PyStr(FooCall))>>),
      PyStr(<<"n","o","t","-","a","-","d","i","c","t">>),
      PyDict([handlers |-> PyList(<<Link(CUSTOM, PyStr(Ghost))>>)]),
      PyDict([name |-> PyStr(P1), handlers |-> PyInt(5)]),
      PyDict([name |-> PyInt(5), handlers |-> PyList(<<>>)]) }

\* flows: well-formed ones, and malformed ones
FlowSet ==
    { Flow(F1, <<Page(P1, <<Link(CUSTOM, PyStr(P2))>>)>>),
      Flow(F1, <<Page(P1, <<Link(CUSTOM, PyStr(Ghost))>>)>>),
      Flow(F2, <<Page(P2, <<>>)>>),
      Flow(F2, <<Page(P2, <<Link(CUSTOM, PyStr(P1))>>)>>),
      Flow(F2, <<Page(Ghost, <<Link(CUSTOM, PyStr(P1))>>)>>),
      Flow(F1, <<>>),
      PyInt(5),
      PyDict([pages |-> PyList(<<Page(Ghost, <<>>)>>)]),
      Named(F1),
      PyDict([name |-> PyStr(F1), pages |-> PyInt(5)]),
      PyDict([name |-> PyInt(5),
              pages |-> PyList(<<Page(P2, <<Link(CUSTOM, PyStr(Ghost))>>)>>)]) }

\* the pieces conditions are made of
CondTokens ==
    { <<"f","o","o","(">>, <<"f","o","o"," ","(">>, <<"s","u","m","(">>,
      <<"T","r","u","e","(">>, <<" ">>, <<"%">>, <<"=","=">>, <<"=">>, <<"&","&">>,
      <<"t","r","u","e">>, <<"T","r","u","e">>, <<"t","R","u","E">>,
      <<"T","R","U","E">>, <<"{","$","x","}">>,
      <<"{","$">> \o NLU_INTENT \o <<"}">>,
      <<"{","$">> \o UU_NLU_INTENT \o <<"}">> }

\* values passed as custom_checks
CustomChecksSet ==
    { PyNone, PyList(<<>>), PyList(<<PyStr(<<"a">>)>>),
      PyList(<<PyStr(<<"a">>), PyStr(<<"b">>)>>), PyInt(5), PyStr(<<"a","b">>) }

SomeChecks == { PyNone, PyList(<<PyStr(<<"a">>)>>) }

\* documents whose top-level shape varies
ContextSet ==
    { PyNone, PyInt(5), PyStr(<<"a","b">>), PyStr(KeyChars("flows")),
      PyList(<<>>), PyList(<<PyStr(KeyChars("flows"))>>), PyDict(<<>>),
      Named(F1),
      PyDict([flows |-> PyNone]), PyDict([flows |-> PyInt(5)]),
      PyDict([flows |-> PyStr(<<"a","b">>)]),
      PyDict([flows |-> PyDict([name |-> PyStr(F1)])]),
      PyDict([flows |-> PyList(<<>>)]),
      PyDict([flows |-> PyList(<<Flow(F1, <<Page(P1, <<>>)>>)>>)]) }

ShapeDocs ==
    { PyNone, PyDict(<<>>), PyInt(0), PyInt(5), PyList(<<>>),
      PyList(<<PyStr(KeyChars("context"))>>), PyStr(KeyChars("context")),
      Named(F1) }
    \cup { PyDict([context |-> c]) : c \in ContextSet }

\* intent and entity registries of every shape
RegistryHandlers ==
    { IntentHandler(PyStr(<<"x">>)), IntentHandler(PyStr(Greeting)),
      ConditionHandler(PyStr(<<"{","$","x","}","{","$","y","}">>)),
      EventHandler(PyStr(<<"B","A","D">>)),
      EventHandler(PyStr(EventTypeLiterals[2])),
      EventHandler(PyStr(<<>>)),
      Link(CUSTOM, PyStr(Ghost)) }

OpenIntentsSet ==
    { PyList(<<>>), PyList(<<Named(<<"x">>)>>),
      PyList(<<Named(Greeting), Named(Greeting)>>), PyStr(<<"a","b">>), PyInt(5),
      PyList(<<PyDict([name |-> PyList(<<>>)]), PyStr(<<"j">>)>>),
      PyList(<<PyDict([name |-> PyList(<<PyStr(<<"z">>)>>)])>>) }

UserIntentsSet == { PyList(<<>>), PyList(<<Named(<<"x">>)>>), PyStr(<<"c","d">>) }

CustomEntitiesSet == { PyList(<<>>), PyList(<<Named(<<"y">>)>>), PyInt(5) }

\* iteration orders of the set allowed_event_types: the order depends on the
\* string hashes of the process
HashOrders ==
    { EventTypeLiterals,
      [i \in 1..Len(EventTypeLiterals) |->
          EventTypeLiterals[Len(EventTypeLiterals) + 1 - i]] }

(***************************************************************************)
(* The dashboard script: every run validates the uploaded document and     *)
(* then computes the suggestions; the script runs again on the same        *)
(* document at every interaction.                                          *)
(***************************************************************************)
VARIABLES
    data,           \* the uploaded document
    custom_checks,  \* the custom_checks argument
    order,          \* iteration order of allowed_event_types in this process
    api_key,        \* OPENAI_API_KEY is set
    pc,             \* "uploaded", "validated", "suggesting", "done", "crashed"
    errors,         \* the list validate_bot_json returned
    raised,         \* the exception that left validate_bot_json, if any
    use_openai,     \* the use_openai argument of suggest_fixes
    suggestions,    \* the list suggest_fixes builds
    idx,            \* position of suggest_fixes in errors
    previous,       \* the call of validate_bot_json before the last one
    analysis,       \* flows, pages, handlers, variables of analyze_bot_json
    summary,        \* the four tables of get_intent_entity_summary
    flow_groups,    \* the response texts of the document, one group per flow
    futures,        \* the calls submitted to the worker pool, one per group
    typo_results    \* the map (flow, normalized text) -> (typo, reason)

vars == <<data, custom_checks, order, api_key, pc, errors, raised, use_openai,
          suggestions, idx, previous, analysis, summary, flow_groups, futures,
          typo_results>>

\* no call before the last one
NoCall == [called |-> FALSE]

\* analyze_bot_json, get_intent_entity_summary have not returned yet
NotRun == [returned |-> FALSE]

\* typo_results = {}
NoResults == [key \in {} |-> <<>>]

\* the document and the findings of a call, as they are when the next call
\* begins
Call(d, errs) == [called |-> TRUE, data |-> d, errors |-> errs]

\* the process starts with the document d, the custom_checks argument c,
\* the hash order o and the credential set or not (k)
Start(d, c, o, k) ==
    /\ data = d
    /\ custom_checks = c
    /\ order = o
    /\ api_key = k
    /\ pc = "uploaded"
    /\ errors = <<>>
    /\ raised = NoExc
    /\ use_openai = FALSE
    /\ suggestions = <<>>
    /\ idx = 0
    /\ previous = NoCall
    /\ analysis = NotRun
    /\ summary = NotRun
    /\ flow_groups = <<>>
    /\ futures = <<>>
    /\ typo_results = NoResults

\* documents whose top-level shape varies
InitShapes ==
    \E d \in ShapeDocs, c \in CustomChecksSet, o \in HashOrders, k \in BOOLEAN :
        Start(d, c, o, k)

\* one flow, one page, one handler, registries of every shape
InitRegistries ==
    \E h \in RegistryHandlers, oi \in OpenIntentsSet \cup {Absent},
       ui \in UserIntentsSet, ce \in CustomEntitiesSet,
       o \in HashOrders, k \in BOOLEAN :
        LET fs == PyList(<<Flow(F1, <<Page(P1, <<h>>)>>)>>)
        IN  Start(PyDict([context |->
                      IF oi = Absent
                      THEN PyDict([flows |-> fs, userIntents |-> ui])
                      ELSE PyDict([flows |-> fs, openIntents |-> oi,
                                   userIntents |-> ui, customEntities |-> ce])]),
                  PyNone, o, k)

\* one flow, one page, handler lists of every length
InitHandlers ==
    \E n \in 0..MaxHandlers : \E hs \in [1..n -> HandlerSet] : \E k \in BOOLEAN :
        Start(Doc(<<Flow(F1, <<Page(P1, hs)>>)>>), PyNone, EventTypeLiterals, k)

\* one flow, page lists of every length
InitPages ==
    \E n \in 0..MaxPages : \E ps \in [1..n -> PageSet] :
        \E c \in SomeChecks :
            Start(Doc(<<Flow(F1, ps)>>), c, EventTypeLiterals, FALSE)

\* flow lists of every length
InitFlows ==
    \E n \in 0..MaxFlows : \E fs \in [1..n -> FlowSet] :
        \E c \in SomeChecks :
            Start(Doc(fs), c, EventTypeLiterals, FALSE)

\* one CONDITION handler, without and with presets and registries
InitConditions ==
    \E n \in 0..MaxCondTokens : \E ts \in [1..n -> CondTokens] :
        \E registered \in BOOLEAN :
            LET cond == PyStr(Concat(ts))
            IN  IF ~registered
                THEN Start(Doc(<<Flow(F1, <<Page(P1, <<ConditionHandler(cond)>>)>>)>>),
                           PyNone, EventTypeLiterals, FALSE)
                ELSE Start(PyDict([context |->
                        PyDict([flows |-> PyList(<<Flow(F1, <<Page(P1, <<
                                    PyDict([type |-> PyStr(CONDITION),
                                            conditionStatement |-> cond,
                                            parameterPresets |->
                                                PyList(<<Named(<<"x">>)>>)])>>)>>)>>),
                                openIntents |-> PyList(<<Named(NLU_INTENT)>>),
                                customEntities |->
                                    PyList(<<Named(UU_NLU_INTENT)>>)])]),
                           PyNone, EventTypeLiterals, FALSE)

\* handlers that refer to a parameter and handlers that declare one, in
\* their presets or in the presets of their action
RefX == <<"{","$","x","}">>
USER_TEXT_INPUT == <<"U","S","E","R","_","T","E","X","T","_","I","N","P","U","T">>
ReferenceHandlers ==
    { ConditionHandler(PyStr(RefX)),
      PyDict([type |-> PyStr(CONDITION), conditionStatement |-> PyStr(RefX),
              action |-> PyDict([parameterPresets |-> PyList(<<Named(<<"x">>)>>)])]),
      PyDict([type |-> PyStr(CONDITION), conditionStatement |-> PyStr(RefX),
              parameterPresets |-> PyList(<<Named(<<"x">>)>>)]),
      PyDict([type |-> PyStr(CONDITION),
              parameterPresets |-> PyList(<<Named(<<"x">>)>>)]),
      ConditionHandler(PyStr(<<"{","$">> \o USER_TEXT_INPUT \o <<"}">>)) }

\* one flow, one page, handlers that refer to parameters
InitReferences ==
    \E n \in 1..MaxHandlers : \E hs \in [1..n -> ReferenceHandlers] :
        Start(Doc(<<Flow(F1, <<Page(P1, hs)>>)>>), PyNone, EventTypeLiterals, FALSE)

Init ==
    \/ InitShapes
    \/ InitRegistries
    \/ InitHandlers
    \/ InitPages
    \/ InitFlows
    \/ InitConditions
    \/ InitReferences

\* a process that draws the iteration order of the set anew at every call
ValidateReseeded ==
    /\ pc \in {"uploaded", "done"}
    /\ order' \in HashOrders
    /\ \E r \in {ValidateBotJson(data, custom_checks, order')} :
           /\ errors' = r.errors
           /\ raised' = r.raised
           /\ pc' = IF Raised(r.raised) THEN "crashed" ELSE "validated"
    /\ use_openai' = FALSE
    /\ suggestions' = <<>>
    /\ idx' = 0
    /\ previous' = IF pc = "done" THEN Call(data, errors) ELSE previous
    /\ UNCHANGED <<flow_groups, futures, typo_results, analysis, summary, data, custom_checks, api_key>>

\* errors = validate_bot_json(data, custom_checks), in the first run of the
\* script and in every later run; the locals of the previous run are gone
Validate ==
    /\ pc \in {"uploaded", "done"}
    /\ \E r \in {ValidateBotJson(data, custom_checks, order)} :
           /\ errors' = r.errors
           /\ raised' = r.raised
           /\ pc' = IF Raised(r.raised) THEN "crashed" ELSE "validated"
    /\ use_openai' = FALSE
    /\ suggestions' = <<>>
    /\ idx' = 0
    /\ previous' = IF pc = "done" THEN Call(data, errors) ELSE previous
    /\ UNCHANGED <<flow_groups, futures, typo_results, analysis, summary, data, custom_checks, order, api_key>>

\* suggestions = suggest_fixes(errors, data, use_openai): entry
SuggestStart ==
    /\ pc = "validated"
    /\ \E u \in BOOLEAN : use_openai' = u
    /\ suggestions' = <<>>
    /\ idx' = 1
    /\ pc' = "suggesting"
    /\ UNCHANGED <<flow_groups, futures, typo_results, analysis, summary, data, custom_checks, order, api_key, errors, raised, previous>>

\* one iteration of the loop of suggest_fixes that calls the oracle
SuggestOracle ==
    /\ pc = "suggesting"
    /\ idx <= Len(errors)
    /\ UsesOracle(errors[idx], use_openai)
    /\ \E outcome \in OracleOutcomes :
          IF Raised(openai_suggest_fix(api_key, outcome).exc)
          THEN /\ raised' = openai_suggest_fix(api_key, outcome).exc
               /\ pc' = "crashed"
               /\ UNCHANGED <<suggestions, idx>>
          ELSE /\ suggestions' = SuggestOne(suggestions, errors[idx], use_openai,
                                            api_key, outcome)
               /\ idx' = idx + 1
               /\ UNCHANGED <<pc, raised>>
    /\ UNCHANGED <<flow_groups, futures, typo_results, analysis, summary, data, custom_checks, order, api_key, errors,
                   use_openai, previous>>

\* one iteration of the loop of suggest_fixes that does not call the oracle
SuggestLocal ==
    /\ pc = "suggesting"
    /\ idx <= Len(errors)
    /\ ~UsesOracle(errors[idx], use_openai)
    /\ suggestions' = suggestions \o LocalSuggestion(errors[idx])
    /\ idx' = idx + 1
    /\ UNCHANGED <<flow_groups, futures, typo_results, analysis, summary, data, custom_checks, order, api_key, pc, errors, raised,
                   use_openai, previous>>

\* suggest_fixes returns
SuggestReturn ==
    /\ pc = "suggesting"
    /\ idx > Len(errors)
    /\ pc' = "done"
    /\ UNCHANGED <<flow_groups, futures, typo_results, analysis, summary, data, custom_checks, order, api_key, errors, raised,
                   use_openai, suggestions, idx, previous>>

Next == Validate \/ SuggestStart \/ SuggestOracle \/ SuggestLocal \/ SuggestReturn

Spec == Init /\ [][Next]_vars

(***************************************************************************)
(* The detail tabs of the dashboard: the script analyses the uploaded      *)
(* document and then summarises its intents and entities.                  *)
(***************************************************************************)
Preset(n) == PyDict([name |-> n])
WithPresets(ps) == PyDict([type |-> PyStr(CONDITION), parameterPresets |-> ps])
WithAction(a) == PyDict([type |-> PyStr(CONDITION), action |-> a])

\* handlers without and with presets, well-formed and malformed
AnalysisHandlers ==
    { PyDict([type |-> PyStr(CONDITION)]),
      WithPresets(PyList(<<Preset(PyStr(<<"x">>))>>)),
      WithPresets(PyList(<<Preset(PyStr(<<"x">>)), Preset(PyStr(<<"y">>))>>)),
      WithPresets(PyList(<<PyStr(<<"s">>), PyDict([value |-> PyInt(5)])>>)),
      WithPresets(PyInt(5)),
      WithPresets(PyList(<<Preset(PyList(<<>>))>>)),
      WithAction(PyDict([parameterPresets |-> PyList(<<Preset(PyStr(<<"z">>))>>)])),
      WithAction(PyDict([parameterPresets |-> PyNone])),
      WithAction(PyInt(5)),
      PyStr(<<"h">>) }

\* the script starts on the document d
StartTabs(d) == Start(d, PyNone, EventTypeLiterals, FALSE)

InitTabShapes == \E d \in ShapeDocs : StartTabs(d)

InitTabHandlers ==
    \E n \in 0..MaxHandlers : \E hs \in [1..n -> AnalysisHandlers] :
        StartTabs(Doc(<<Flow(F1, <<Page(P1, hs)>>)>>))

InitTabPages ==
    \E n \in 0..MaxPages : \E ps \in [1..n -> PageSet] : StartTabs(Doc(<<Flow(F1, ps)>>))

InitTabFlows ==
    \E n \in 0..MaxFlows : \E fs \in [1..n -> FlowSet] : StartTabs(Doc(fs))

Bye == <<"B","y","e">>
City == <<"C","i","t","y">>

\* intent declarations, well-formed and malformed
IntentDecls ==
    { Named(Greeting), Named(Bye),
      PyDict([name |-> PyStr(Greeting),
              sentences |-> PyList(<<PyStr(<<"h","i">>), PyStr(<<"y","o">>)>>)]),
      PyDict([name |-> PyStr(Bye), sentences |-> PyList(<<PyInt(1)>>)]),
      PyDict([name |-> PyList(<<PyStr(<<"z">>)>>)]),
      Named(<<>>),
      PyDict([name |-> PyInt(5)]),
      PyStr(<<"s">>) }

\* userIntents and customEntities values; Absent for a missing key
UserIntentDecls == { Absent, PyList(<<Named(Greeting)>>), PyStr(<<"c","d">>) }
EntityDecls ==
    { Absent, PyList(<<Named(City)>>), PyList(<<Named(City), Named(City)>>),
      PyList(<<Named(City), PyStr(<<"s">>)>>), PyInt(5) }

\* the handlers of the page: they use declared names or fail on the way
UsingHandlers ==
    { <<>>,
      <<IntentHandler(PyStr(Greeting))>>,
      <<ConditionHandler(PyStr(Bye \o <<" ">> \o City))>>,
      <<IntentHandler(PyList(<<PyStr(<<"z">>)>>)), IntentHandler(PyStr(Greeting))>>,
      <<ConditionHandler(PyStr(City)), IntentHandler(PyStr(Greeting))>> }

\* the record [k |-> v], empty if v is Absent
Key(k, v) == IF v = Absent THEN <<>> ELSE [x \in {k} |-> v]

\* one flow, one page, intent and entity registries of every shape
InitTabRegistries ==
    \E n \in 0..MaxIntents : \E oi \in [1..n -> IntentDecls] :
        \E ui \in UserIntentDecls, ce \in EntityDecls, hs \in UsingHandlers :
            StartTabs(PyDict([context |->
                PyDict([flows |-> PyList(<<Flow(F1, <<Page(P1, hs)>>)>>),
                        openIntents |-> PyList(oi)]
                       @@ Key("userIntents", ui) @@ Key("customEntities", ce))]))

InitTabs ==
    \/ InitTabShapes
    \/ InitTabHandlers
    \/ InitTabPages
    \/ InitTabFlows
    \/ InitTabRegistries

\* flows, pages, handlers, variables = analyze_bot_json(data)
Analyze ==
    /\ pc = "uploaded"
    /\ \E r \in {analyze_bot_json(data)} :
           /\ \E vs \in ListsOf(r.variables) :
                  analysis' = [returned |-> ~Raised(r.raised), flows |-> r.flows,
                               pages |-> r.pages, handlers |-> r.handlers,
                               variables |-> vs]
           /\ raised' = r.raised
           /\ pc' = IF Raised(r.raised) THEN "crashed" ELSE "analyzed"
    /\ UNCHANGED <<flow_groups, futures, typo_results, summary, data, custom_checks, order, api_key, errors, use_openai,
                   suggestions, idx, previous>>

\* intent_df, entity_df, intent_err_df, entity_err_df =
\* get_intent_entity_summary(data)
Summarize ==
    /\ pc = "analyzed"
    /\ \E r \in get_intent_entity_summary(data) :
           /\ summary' = [returned |-> ~Raised(r.raised), intents |-> r.intents,
                          entities |-> r.entities,
                          intent_errors |-> r.intent_errors,
                          entity_errors |-> r.entity_errors]
           /\ raised' = r.raised
           /\ pc' = IF Raised(r.raised) THEN "crashed" ELSE "summarized"
    /\ UNCHANGED <<flow_groups, futures, typo_results, analysis, data, custom_checks, order, api_key, errors, use_openai,
                   suggestions, idx, previous>>

NextTabs == Analyze \/ Summarize

SpecTabs == InitTabs /\ [][NextTabs]_vars

(***************************************************************************)
(* The response text page: the parallel typo check.  One call of           *)
(* check_typo_openai_responses_json per flow is submitted to a pool of     *)
(* worker threads; the main thread merges the results of the calls in the  *)
(* order as_completed yields them.  Texts are sequences of characters.     *)
(***************************************************************************)
MaxTypoFlows == 2

\* ThreadPoolExecutor(max_workers=5)
max_workers == 5

\* str.lower() on the letters of the model
UpperLetters == <<"A","B","C","D","E","F","G","H","I","J","K","L","M",
                  "N","O","P","Q","R","S","T","U","V","W","X","Y","Z">>
LowerLetters == <<"a","b","c","d","e","f","g","h","i","j","k","l","m",
                  "n","o","p","q","r","s","t","u","v","w","x","y","z">>
ToLower(c) ==
    IF c \in Upper
    THEN LowerLetters[CHOOSE i \in 1..Len(UpperLetters) : UpperLetters[i] = c]
    ELSE c

\* re.sub(r'\s+', ' ', text): every run of white space becomes one blank
RECURSIVE CollapseSpaces(_)
CollapseSpaces(text) ==
    IF text = <<>> THEN <<>>
    ELSE IF Head(text) \in WhiteSpace
    THEN <<" ">> \o CollapseSpaces(LStrip(Tail(text)))
    ELSE <<Head(text)>> \o CollapseSpaces(Tail(text))

\* normalize_text(text)
normalize_text(text) ==
    IF text = <<>> THEN <<>>
    ELSE LET collapsed == CollapseSpaces(Strip(text))
         IN  [i \in 1..Len(collapsed) |-> ToLower(collapsed[i])]

\* the Korean letters of the patterns of is_meaningless: the texts of the
\* model hold none of them
Jamo == {}
Hangul == {}

\* is_meaningless(text)
is_meaningless(text) ==
    \/ text = <<>>
    \/ Strip(text) = <<>>
    \/ /\ Strip(text) # <<>>
       /\ \A i \in 1..Len(Strip(text)) : Strip(text)[i] \in Jamo
    \/ ~\E i \in 1..Len(text) : text[i] \in Lower \cup Upper \cup Digit \cup Hangul
    \/ Len(Strip(text)) <= 2

\* TypoCheckResult(text, typo, reason)
TypoCheckResult(text, typo, reason) == [text |-> text, typo |-> typo, reason |-> reason]

\* the result of a text that is not sent to the oracle
MeaninglessResult(text) == TypoCheckResult(text, TRUE, <<"meaningless string">>)

\* the meaningless and the meaningful texts of a list, in the order of the list
Meaningless(response_texts) == SelectSeq(response_texts, is_meaningless)
Meaningful(response_texts) ==
    LET HasMeaning(t) == ~is_meaningless(t)
    IN  SelectSeq(response_texts, HasMeaning)

\* what the oracle can say about one text: no typo, a typo, or a typo in a
\* text that it has rewritten
Rewritten == <<"A","b","c"," ","d">>
TypoAnswers(text) ==
    { TypoCheckResult(text, FALSE, <<>>), TypoCheckResult(text, TRUE, <<"r">>),
      TypoCheckResult(Rewritten, TRUE, <<"r">>) }

\* what the call client.responses.parse can do for a list of texts: fail,
\* return a response without parsed output, or return one result per text
TypoOutcomes(texts) ==
    { [ok |-> FALSE, text |-> <<"no network">>],
      [ok |-> TRUE, none |-> TRUE] }
        \cup { [ok |-> TRUE, results |-> rs] :
                 rs \in { rs \in [1..Len(texts) -> UNION { TypoAnswers(texts[i]) :
                                                             i \in 1..Len(texts) }] :
                            \A i \in 1..Len(texts) : rs[i] \in TypoAnswers(texts[i]) } }

\* check_typo_openai_responses_json(response_texts), given whether the
\* credential is set and what the call of the oracle does : [exc, val]
check_typo_openai_responses_json(response_texts, key, outcome) ==
    LET results == [i \in 1..Len(Meaningless(response_texts)) |->
                       MeaninglessResult(Meaningless(response_texts)[i])]
    IN  IF ~key
        THEN [exc |-> APIError(<<"The api_key client option must be set">>),
              val |-> <<>>]
        ELSE IF Meaningful(response_texts) = <<>>
        THEN [exc |-> NoExc, val |-> results]
        ELSE IF ~outcome.ok THEN [exc |-> APIError(outcome.text), val |-> <<>>]
        ELSE IF "none" \in DOMAIN outcome
        THEN [exc |-> AttributeError(<<"'NoneType' object has no attribute 'results'">>),
              val |-> <<>>]
        ELSE [exc |-> NoExc, val |-> results \o outcome.results]

\* a key that leaves out the flow
ResultKeyWithoutFlow(flow, r) == << <<>>, normalize_text(r.text)>>

\* the key of a result in typo_results
ResultKey(flow, r) == <<flow, normalize_text(r.text)>>

\* "for r in results: typo_results[(flow, normalized_text)] = (r.typo,
\* r.reason)"
RECURSIVE MergeResults(_, _, _)
MergeResults(map, flow, results) ==
    IF results = <<>> THEN map
    ELSE MergeResults([key \in DOMAIN map \cup {ResultKey(flow, Head(results))} |->
                          IF key = ResultKey(flow, Head(results))
                          THEN <<Head(results).typo, Head(results).reason>>
                          ELSE map[key]],
                      flow, Tail(results))

\* a call that is submitted, and a call that has returned or raised;
\* yielded is the position at which as_completed has yielded the call, 0
\* before that
Pending == [state |-> "pending", exc |-> NoExc, results |-> <<>>, yielded |-> 0]
Finished(r) == [state |-> "finished", exc |-> r.exc, results |-> r.val, yielded |-> 0]

\* the number of calls that a worker thread is running, and the number of
\* calls that as_completed has yielded
Running == Cardinality({ i \in 1..Len(futures) : futures[i].state = "running" })
Yielded == Cardinality({ i \in 1..Len(futures) : futures[i].yielded > 0 })

\* the response texts of the flows of a document
TextGroups ==
    { << <<"A","b","c">> >>,
      << <<"A","b","c">>, <<"a","b","c"," "," ","d">> >>,
      << <<"!","?","!">>, <<"a","B","C">> >>,
      << <<"a","b">> >> }
FlowName(i) == <<"F", DigitStr[i + 1]>>

\* the page is shown, the button is not pressed yet
InitTypo ==
    \E n \in 1..MaxTypoFlows : \E gs \in [1..n -> TextGroups] : \E k \in BOOLEAN :
        /\ data = PyNone
        /\ custom_checks = PyNone
        /\ order = EventTypeLiterals
        /\ api_key = k
        /\ pc = "shown"
        /\ errors = <<>>
        /\ raised = NoExc
        /\ use_openai = FALSE
        /\ suggestions = <<>>
        /\ idx = 0
        /\ previous = NoCall
        /\ analysis = NotRun
        /\ summary = NotRun
        /\ flow_groups = [i \in 1..n |-> [flow |-> FlowName(i), texts |-> gs[i]]]
        /\ futures = <<>>
        /\ typo_results = NoResults

\* what the typo check leaves alone
others == <<data, custom_checks, order, api_key, errors, use_openai, suggestions,
            idx, previous, analysis, summary, flow_groups>>

\* the button is pressed: one call per flow is submitted
Submit ==
    /\ pc = "shown"
    /\ futures' = [i \in 1..Len(flow_groups) |-> Pending]
    /\ pc' = "merging"
    /\ UNCHANGED <<others, raised, typo_results>>

\* a worker thread takes a submitted call
RunFlow ==
    /\ pc \in {"merging", "unwinding"}
    /\ Running < max_workers
    /\ \E i \in 1..Len(futures) :
          /\ futures[i].state = "pending"
          /\ futures' = [futures EXCEPT ![i].state = "running"]
    /\ UNCHANGED <<others, pc, raised, typo_results>>

\* typo_check_for_flow(flow, group) returns or raises in its thread
FinishFlow ==
    /\ pc \in {"merging", "unwinding"}
    /\ \E i \in 1..Len(futures) :
          /\ futures[i].state = "running"
          /\ \E outcome \in TypoOutcomes(Meaningful(flow_groups[i].texts)) :
                futures' = [futures EXCEPT ![i] =
                               Finished(check_typo_openai_responses_json(
                                            flow_groups[i].texts, api_key, outcome))]
    /\ UNCHANGED <<others, pc, raised, typo_results>>

\* as_completed yields a finished call and the main thread takes its
\* result: future.result() returns the results, which are merged, or raises
\* the exception of the call, which leaves the loop
MergeFlow ==
    /\ pc = "merging"
    /\ \E i \in 1..Len(futures) :
          /\ futures[i].state = "finished"
          /\ futures[i].yielded = 0
          /\ futures' = [futures EXCEPT ![i].yielded = Yielded + 1]
          /\ IF Raised(futures[i].exc)
             THEN /\ raised' = futures[i].exc
                  /\ pc' = "unwinding"
                  /\ UNCHANGED typo_results
             ELSE /\ typo_results' = MergeResults(typo_results, flow_groups[i].flow,
                                                  futures[i].results)
                  /\ UNCHANGED <<pc, raised>>
    /\ UNCHANGED others

\* every call was yielded: the loop and the with block end
Complete ==
    /\ pc = "merging"
    /\ Yielded = Len(futures)
    /\ pc' = "done"
    /\ UNCHANGED <<others, futures, raised, typo_results>>

\* the exception leaves the with block, which waits for the calls that are
\* still submitted or running, and then leaves the script
Unwind ==
    /\ pc = "unwinding"
    /\ \A i \in 1..Len(futures) : futures[i].state = "finished"
    /\ pc' = "crashed"
    /\ UNCHANGED <<others, futures, raised, typo_results>>

NextTypo == Submit \/ RunFlow \/ FinishFlow \/ MergeFlow \/ Complete \/ Unwind

SpecTypo == InitTypo /\ [][NextTypo]_vars

(***************************************************************************)
(* The document as the rules read it: the well-formed nodes.               *)
(***************************************************************************)
\* data['context']['flows'] is a list
WellFormedTop(d) ==
    /\ IsDict(d)
    /\ "context" \in DOMAIN d.v
    /\ IsDict(d.v.context)
    /\ "flows" \in DOMAIN d.v.context.v
    /\ IsList(d.v.context.v.flows)

ListItems(x) == IF IsList(x) THEN x.v ELSE <<>>

\* a flow is a mapping with name and pages, a page is a mapping with name
WellFormedFlow(f) == IsDict(f) /\ "name" \in DOMAIN f.v /\ "pages" \in DOMAIN f.v
WellFormedPage(p) == IsDict(p) /\ "name" \in DOMAIN p.v

FlowsOf(d) == d.v.context.v.flows.v
PagesOf(f) == ListItems(f.v.pages)
HandlersOf(p) == ListItems(Get(p, "handlers", PyList(<<>>)))

\* the positions <<flow, page>> of the well-formed pages of a document
PageSites(d) ==
    UNION { { <<i, j>> : j \in { j \in 1..Len(PagesOf(FlowsOf(d)[i])) :
                                   WellFormedPage(PagesOf(FlowsOf(d)[i])[j]) } } :
            i \in { i \in 1..Len(FlowsOf(d)) : WellFormedFlow(FlowsOf(d)[i]) } }

SitePage(d, s) == PagesOf(FlowsOf(d)[s[1]])[s[2]]

\* the positions <<flow, page, handler>> of the well-formed handlers
HandlerSites(d) ==
    UNION { { <<s[1], s[2], k>> : k \in { k \in 1..Len(HandlersOf(SitePage(d, s))) :
                                           IsDict(HandlersOf(SitePage(d, s))[k]) } } :
            s \in PageSites(d) }

SiteHandler(d, s) == HandlersOf(SitePage(d, s))[s[3]]

\* the names of the pages of the well-formed flows
PageRegistry(d) == { SitePage(d, s).v.name : s \in PageSites(d) }

\* number of findings of a list that satisfy a test
CountWhere(fs, Test(_)) == Cardinality({ i \in 1..Len(fs) : Test(fs[i]) })

\* the CUSTOM target page of a handler, PyNone if it has none
CustomTarget(h) ==
    LET target == Get(h, "transitionTarget", PyDict(<<>>))
    IN  IF IsDict(target) /\ Get(target, "type", PyNone) = PyStr(CUSTOM)
        THEN Get(target, "page", PyNone) ELSE PyNone

(***************************************************************************)
(* Claims.                                                                 *)
(***************************************************************************)
\* C1: in a document with a well-formed top-level shape, a well-formed
\* handler with a CUSTOM transition gets a PageLinkError if and only if its
\* target page is non-empty and is not the name of a page of the document:
\* for every page name and target, the number of PageLinkErrors located at
\* that page and naming that target is the number of handlers of such pages
\* that link to that target when the target is missing, and zero otherwise.
C1_PageLinkIff ==
    (pc = "validated" /\ WellFormedTop(data)) =>
        \A s \in HandlerSites(data) :
            LET t == CustomTarget(SiteHandler(data, s))
                pn == Format(SitePage(data, s).v.name)
                same == { r \in HandlerSites(data) :
                            /\ CustomTarget(SiteHandler(data, r)) = t
                            /\ Format(SitePage(data, r).v.name) = pn }
                IsLinkError(f) ==
                    /\ f.type = "PageLinkError"
                    /\ EndsWith(f.location, pn)
                    /\ Contains(f.message, Format(t))
            IN  (IsStr(t) /\ Truthy(t)) =>
                    CountWhere(errors, IsLinkError) =
                        IF t \in PageRegistry(data) THEN 0 ELSE Cardinality(same)

\* C2: suggest_fixes returns one suggestion per finding, in the order of the
\* findings, and the entry of a finding without a suggestion path is the
\* empty string.
C2_SuggestionsAligned ==
    pc = "done" =>
        /\ Len(suggestions) = Len(errors)
        /\ \A i \in 1..Len(errors) :
              (/\ i <= Len(suggestions)
               /\ ~UsesOracle(errors[i], use_openai)
               /\ errors[i].type \notin
                     {"PageLinkError", "HandlerMissing", "ConditionError", "CustomCheck"})
              => suggestions[i] = <<>>

\* C3: a document without the context.flows shape (empty, context missing,
\* context not a mapping, flows missing, flows not a list) yields exactly
\* one finding, a DataStructureError, whatever custom_checks is.
C3_ShapeErrorOnly ==
    (pc = "validated" /\ ~WellFormedTop(data) /\ (Truthy(data) => IsDict(data))) =>
        /\ Len(errors) = 1
        /\ errors[1].type = "DataStructureError"

\* the finding kinds are those of a list of findings
HasKind(fs, kind) == \E i \in 1..Len(fs) : fs[i].type = kind

StripMalformed(d) ==
    LET KeepPage(pg) == IsDict(pg) /\ "name" \in DOMAIN pg.v
        KeepFlow(f) == IsDict(f) /\ "name" \in DOMAIN f.v
        StripFlow(f) ==
            IF "pages" \in DOMAIN f.v /\ IsList(f.v.pages)
            THEN PyDict([f.v EXCEPT !.pages = PyList(SelectSeq(f.v.pages.v, KeepPage))])
            ELSE f
        kept == SelectSeq(FlowsOf(d), KeepFlow)
    IN  PyDict([d.v EXCEPT !.context =
            PyDict([d.v.context.v EXCEPT !.flows =
                PyList([i \in 1..Len(kept) |-> StripFlow(kept[i])])])])

\* C5: in a document with a well-formed top-level shape, flows and pages
\* that are not a mapping or have no name are skipped silently: the call
\* returns exactly the findings it returns for the document without them.
C5_SkipsMalformedNodes ==
    (pc = "validated" /\ WellFormedTop(data)) =>
        /\ ~Raised(raised)
        /\ errors = ValidateBotJson(StripMalformed(data), custom_checks, order).errors

\* C5 witness: a document with a malformed flow or page among well-formed
\* pages, and findings for the well-formed pages
C5_Witness ==
    /\ pc = "validated"
    /\ WellFormedTop(data)
    /\ StripMalformed(data) # data
    /\ HasKind(errors, "HandlerMissing")
    /\ ~HasKind(errors, "ValidationError")

\* the condition of a handler
CondOf(h) == Get(h, "conditionStatement", PyNone)

\* the positions of the well-formed CONDITION handlers whose condition is a
\* non-empty string
ConditionSites(d) ==
    { s \in HandlerSites(d) :
        /\ Get(SiteHandler(d, s), "type", PyNone) = PyStr(CONDITION)
        /\ IsStr(CondOf(SiteHandler(d, s)))
        /\ Truthy(CondOf(SiteHandler(d, s))) }

\* the location of the findings of a handler
SiteLocation(d, s) ==
    Location(FlowsOf(d)[s[1]].v.name, SitePage(d, s).v.name)

\* the CONDITION handlers of a document with the location and the condition
\* of the handler at s
SameCondition(d, s) ==
    { r \in ConditionSites(d) :
        /\ SiteLocation(d, r) = SiteLocation(d, s)
        /\ CondOf(SiteHandler(d, r)) = CondOf(SiteHandler(d, s)) }

\* the run was not ended by an exception
NotAborted(fs) == ~HasKind(fs, "ValidationError")

\* an operator token outside the allow-list, a call of a function outside
\* the allow-lists
UnknownOperator == <<"%">>
UnknownCall == <<"f","o","o","(">>

\* C6: a CONDITION handler whose condition holds both an operator outside
\* the operator allow-list and a call of a function outside the function
\* allow-list gets a ConditionError for the operator and a separate
\* ConditionError for the function (in a run that no exception ended).
C6_OperatorAndFunction ==
    (pc = "validated" /\ WellFormedTop(data) /\ NotAborted(errors)) =>
        \A s \in ConditionSites(data) :
            LET c == CondOf(SiteHandler(data, s)).v
                loc == SiteLocation(data, s)
                ForOperator(f) ==
                    /\ f.type = "ConditionError"
                    /\ f.location = loc
                    /\ f.message = OperatorError(UnknownOperator, c, loc).message
                ForFunction(f) ==
                    /\ f.type = "ConditionError"
                    /\ f.location = loc
                    /\ f.message = FunctionError(<<"f","o","o">>, c, loc).message
            IN  (Contains(c, UnknownOperator) /\ Contains(c, UnknownCall)) =>
                    /\ CountWhere(errors, ForOperator) >= 1
                    /\ CountWhere(errors, ForFunction) >= 1

\* the two names that stand for the recognised intent
SentinelNames == {UU_NLU_INTENT, NLU_INTENT}

\* the references of a condition name a sentinel
RefersToSentinel(c) ==
    \E k \in 1..Len(FindParamRefs(c)) : FindParamRefs(c)[k] \in SentinelNames

\* every reference of a condition is a sentinel
OnlySentinels(c) ==
    \A k \in 1..Len(FindParamRefs(c)) : FindParamRefs(c)[k] \in SentinelNames

\* C7: __NLU_INTENT__ and NLU_INTENT never occur in the missing_vars of a
\* ConditionWarning, whatever the presets, intents and entities are, and a
\* location whose conditions refer to the two sentinels only gets no
\* ConditionWarning.
C7_SentinelsNeverMissing ==
    pc = "validated" =>
        /\ \A i \in 1..Len(errors) :
              errors[i].type = "ConditionWarning" =>
                  \A k \in 1..Len(errors[i].missing_vars) :
                      errors[i].missing_vars[k] \notin SentinelNames
        /\ WellFormedTop(data) =>
              \A s \in ConditionSites(data) :
                  (\A r \in ConditionSites(data) :
                       SiteLocation(data, r) = SiteLocation(data, s) =>
                           OnlySentinels(CondOf(SiteHandler(data, r)).v))
                  => \A i \in 1..Len(errors) :
                         ~(/\ errors[i].type = "ConditionWarning"
                           /\ errors[i].location = SiteLocation(data, s))

\* C7 witness: a condition that refers to a sentinel and to a name that is
\* not declared: the warning lists the other name
C7_Witness ==
    /\ pc = "validated"
    /\ WellFormedTop(data)
    /\ HasKind(errors, "ConditionWarning")
    /\ \E s \in ConditionSites(data) :
          /\ RefersToSentinel(CondOf(SiteHandler(data, s)).v)
          /\ ~OnlySentinels(CondOf(SiteHandler(data, s)).v)

CaselessTrue(s) ==
    /\ Len(s) = 4
    /\ s[1] \in {"t", "T"}
    /\ s[2] \in {"r", "R"}
    /\ s[3] \in {"u", "U"}
    /\ s[4] \in {"e", "E"}

\* C9: for a CONDITION handler with a non-empty condition, a trimmed
\* condition that is 'true' in some casing other than 'True' gets exactly
\* one boolean-casing ConditionError, and the trimmed condition 'True' gets
\* none (in a run that no exception ended).
C9_BooleanCasing ==
    (pc = "validated" /\ WellFormedTop(data) /\ NotAborted(errors)) =>
        \A s \in ConditionSites(data) :
            LET c == CondOf(SiteHandler(data, s)).v
                loc == SiteLocation(data, s)
                t == Strip(c)
                ForCasing(f) ==
                    /\ f.type = "ConditionError"
                    /\ f.location = loc
                    /\ f.message = BooleanCasingError(c, loc).message
            IN  CaselessTrue(t) =>
                    CountWhere(errors, ForCasing) =
                        IF t = <<"T","r","u","e">> THEN 0
                        ELSE Cardinality(SameCondition(data, s))

\* the positions of the '(' of a condition that an identifier precedes
\* immediately, and the identifier (the longest one that ends there)
CallSites(c) ==
    { p \in 2..Len(c) :
        /\ c[p] = "("
        /\ \E b \in 1..(p - 1) :
              /\ c[b] \in IdStart
              /\ \A k \in b..(p - 1) : c[k] \in IdChar }

CalledAt(c, p) ==
    LET starts == { b \in 1..(p - 1) :
                      /\ c[b] \in IdStart
                      /\ \A k \in b..(p - 1) : c[k] \in IdChar }
        b == CHOOSE b \in starts : \A o \in starts : b <= o
    IN  SubSeq(c, b, p - 1)

\* no '(' of the condition follows white space
ImmediateOnly(c) == \A p \in 2..Len(c) : c[p] = "(" => c[p - 1] \notin WhiteSpace

\* the document of scenario A
ScenarioA ==
    Doc(<<Flow(F1, <<Page(P1, <<ConditionHandler(PyStr(FooCall))>>),
                     Page(P2, <<>>)>>)>>)

\* C10: for every CONDITION handler, the function check emits one
\* ConditionError per occurrence of an identifier immediately followed by
\* '(' that is neither an allowed function nor a reserved word, and none
\* for the allowed functions and the reserved words (in a run that no
\* exception ended, for a condition without white space before a '(');
\* scenario A yields exactly the ConditionError for foo and the
\* HandlerMissing of "F1 > P2".
C10_FunctionCheck ==
    (pc = "validated" /\ WellFormedTop(data) /\ NotAborted(errors)) =>
        /\ \A s \in ConditionSites(data) :
              LET c == CondOf(SiteHandler(data, s)).v
                  loc == SiteLocation(data, s)
                  unknown == { p \in CallSites(c) :
                                 /\ CalledAt(c, p) \notin allowed_functions
                                 /\ CalledAt(c, p) \notin reserved_words }
                  ForFunction(f) ==
                      /\ f.type = "ConditionError"
                      /\ f.location = loc
                      /\ f.used_condition = PyStr(c)
                      /\ \E p \in CallSites(c) :
                            f.message = FunctionError(CalledAt(c, p), c, loc).message
                  ForKnown(f) ==
                      /\ ForFunction(f)
                      /\ \E p \in CallSites(c) \ unknown :
                            f.message = FunctionError(CalledAt(c, p), c, loc).message
              IN  ImmediateOnly(c) =>
                      /\ CountWhere(errors, ForFunction) =
                            Cardinality(unknown) * Cardinality(SameCondition(data, s))
                      /\ CountWhere(errors, ForKnown) = 0
        /\ (data = ScenarioA /\ custom_checks = PyNone) =>
              errors = << FunctionError(<<"f","o","o">>, FooCall,
                                        Location(PyStr(F1), PyStr(P1))),
                          HandlerMissing(Location(PyStr(F1), PyStr(P2))) >>

\* the names of the mappings of a list that have a name
NamesIn(items) ==
    { items[i].v.name : i \in { i \in 1..Len(items) :
                                  IsDict(items[i]) /\ "name" \in DOMAIN items[i].v } }

\* the preset names of a handler, the declared intent and entity names
PresetNames(h) == NamesIn(ListItems(Get(h, "parameterPresets", PyList(<<>>))))
IntentNames(d) ==
    NamesIn(ListItems(Get(d.v.context, "openIntents", PyList(<<>>))))
        \cup NamesIn(ListItems(Get(d.v.context, "userIntents", PyList(<<>>))))
EntityNames(d) ==
    NamesIn(ListItems(Get(d.v.context, "customEntities", PyList(<<>>))))

\* the references of the condition at s that resolve to nothing, in the
\* order of the condition
Unresolved(d, s) ==
    LET known == PresetNames(SiteHandler(d, s)) \cup IntentNames(d)
                    \cup EntityNames(d)
        Missing(ref) == ref \notin SentinelNames /\ PyStr(ref) \notin known
    IN  SelectSeq(FindParamRefs(CondOf(SiteHandler(d, s)).v), Missing)

\* C11: for every CONDITION handler with a non-empty condition, the
\* parameter-reference check emits at most one ConditionWarning; it is
\* emitted if and only if some reference other than the two sentinels is
\* in none of the handler's preset names, the declared intent names and the
\* declared entity names, and its missing_vars lists exactly the unresolved
\* references: at every location there is one ConditionWarning per handler
\* with an unresolved reference, with the unresolved references of that
\* handler.
C11_OneWarningPerHandler ==
    (pc = "validated" /\ WellFormedTop(data)) =>
        \A s \in ConditionSites(data) :
            LET loc == SiteLocation(data, s)
                here == { r \in ConditionSites(data) : SiteLocation(data, r) = loc }
                At(f) == f.type = "ConditionWarning" /\ f.location = loc
                Mine(f) == At(f) /\ f.missing_vars = Unresolved(data, s)
            IN  /\ CountWhere(errors, At) =
                      Cardinality({ r \in here : Unresolved(data, r) # <<>> })
                /\ Unresolved(data, s) # <<>> =>
                      CountWhere(errors, Mine) =
                          Cardinality({ r \in here :
                                          Unresolved(data, r) = Unresolved(data, s) })

\* a page has zero handlers: no handlers key, an empty list, or a list that
\* holds no well-formed handler
ListedHandlers(p) ==
    "handlers" \notin DOMAIN p.v \/ IsList(p.v.handlers)
ZeroHandlers(p) ==
    /\ ListedHandlers(p)
    /\ \A k \in 1..Len(HandlersOf(p)) : ~IsDict(HandlersOf(p)[k])

\* C12: for every well-formed page, exactly one HandlerMissing at the
\* location "<flow> > <page>" if the page has zero handlers (no handlers
\* key, an empty list, or a list that holds no well-formed handler), and
\* none if it has at least one handler: in a run that no exception
\* interrupts, every location has as many HandlerMissing findings as pages
\* with zero handlers.
C12_HandlerMissing ==
    (pc = "validated" /\ WellFormedTop(data) /\ NotAborted(errors)) =>
        \A s \in PageSites(data) :
            LET loc == SiteLocation(data, s)
                At(f) == f.type = "HandlerMissing" /\ f.location = loc
            IN  ListedHandlers(SitePage(data, s)) =>
                    CountWhere(errors, At) =
                        Cardinality({ r \in PageSites(data) :
                                        /\ SiteLocation(data, r) = loc
                                        /\ ZeroHandlers(SitePage(data, r)) })

\* the value of field `field` of the trigger `trigger` of a handler of type
\* `type`, PyNone for a handler of another type or without such a value
TriggerValue(h, type, trigger, field) ==
    IF /\ Get(h, "type", PyNone) = PyStr(type)
       /\ IsDict(Get(h, trigger, PyNone))
    THEN Get(Get(h, trigger, PyNone), field, PyNone)
    ELSE PyNone

\* the handlers at the location of s
HandlersAt(d, s) ==
    { r \in HandlerSites(d) : SiteLocation(d, r) = SiteLocation(d, s) }

\* the intent name of an INTENT handler that is non-empty and not declared,
\* PyNone if there is none
UndeclaredIntent(d, s) ==
    LET n == TriggerValue(SiteHandler(d, s), INTENT, "intentTrigger", "name")
    IN  IF Truthy(n) /\ n \notin IntentNames(d) THEN n ELSE PyNone

\* C13: a well-formed handler produces an IntentError if and only if its
\* type is INTENT, its intentTrigger.name is non-empty and the name is not
\* declared in openIntents or userIntents; handlers of other types never
\* produce one: every location has one IntentError per such handler,
\* carrying the name of the handler.
C13_IntentError ==
    (pc = "validated" /\ WellFormedTop(data)) =>
        \A s \in HandlerSites(data) :
            LET loc == SiteLocation(data, s)
                n == UndeclaredIntent(data, s)
                At(f) == f.type = "IntentError" /\ f.location = loc
                Mine(f) == At(f) /\ f.used_intent = n
            IN  /\ CountWhere(errors, At) =
                      Cardinality({ r \in HandlersAt(data, s) :
                                      UndeclaredIntent(data, r) # PyNone })
                /\ n # PyNone =>
                      CountWhere(errors, Mine) =
                          Cardinality({ r \in HandlersAt(data, s) :
                                          UndeclaredIntent(data, r) = n })

\* the twelve event types of the claim
TwelveEventTypes == SeqToSet(EventTypeLiterals)

\* the event type of an EVENT handler that is non-empty and not allowed,
\* PyNone if there is none
ForbiddenEvent(d, s) ==
    LET t == TriggerValue(SiteHandler(d, s), EVENT, "eventTrigger", "type")
    IN  IF Truthy(t) /\ ~(IsStr(t) /\ t.v \in TwelveEventTypes) THEN t ELSE PyNone

\* C14: a well-formed handler produces an EventWarning if and only if its
\* type is EVENT and its eventTrigger.type is non-empty and not one of the
\* twelve allowed event types, compared case-sensitively; an EVENT handler
\* whose eventTrigger.type is missing or empty produces no finding: every
\* location has one EventWarning per such handler, naming its event type.
C14_EventWarning ==
    (pc = "validated" /\ WellFormedTop(data)) =>
        /\ Cardinality(TwelveEventTypes) = 12
        /\ \A s \in HandlerSites(data) :
            LET loc == SiteLocation(data, s)
                t == ForbiddenEvent(data, s)
                At(f) == f.type = "EventWarning" /\ f.location = loc
                Mine(f) == f = EventWarning(t, loc, order)
            IN  /\ CountWhere(errors, At) =
                      Cardinality({ r \in HandlersAt(data, s) :
                                      ForbiddenEvent(data, r) # PyNone })
                /\ t # PyNone =>
                      CountWhere(errors, Mine) =
                          Cardinality({ r \in HandlersAt(data, s) :
                                          ForbiddenEvent(data, r) = t })

\* the CustomCheck findings of a list of findings, in order
CustomFindings(fs) ==
    LET IsCustom(f) == f.type = "CustomCheck"
    IN  SelectSeq(fs, IsCustom)

\* C15: for every caller-supplied list custom_checks, the run emits exactly
\* one CustomCheck finding per element of the list, whatever the document
\* contains and whatever other findings or failures occur during the run,
\* each at the document-wide location with the check text in its message,
\* in the order of the list (for a document with the expected context.flows
\* shape; the run of any other document is cut short).
C15_CustomChecksAlways ==
    (pc = "validated" /\ WellFormedTop(data) /\ IsList(custom_checks)) =>
        /\ Len(CustomFindings(errors)) = Len(custom_checks.v)
        /\ \A i \in 1..Len(custom_checks.v) :
              LET f == CustomFindings(errors)[i]
              IN  /\ f.location = DocWide
                  /\ EndsWith(f.message, Format(custom_checks.v[i]))

\* C16: analyze_bot_json never raises, and for a document that is
\* catastrophically malformed (empty, context missing or not a mapping,
\* flows missing or not a list) it returns four empty results.
C16_AnalyzeNeverRaises ==
    /\ pc # "uploaded" => analysis.returned
    /\ pc = "analyzed" => ~Raised(raised)
    /\ (pc = "analyzed" /\ ~WellFormedTop(data)) =>
          /\ analysis.returned
          /\ analysis.flows = <<>>
          /\ analysis.pages = <<>>
          /\ analysis.handlers = <<>>
          /\ analysis.variables = <<>>

\* analyze_bot_json has returned for a document whose context is not a
\* mapping
C16_Witness ==
    /\ pc = "analyzed"
    /\ data = PyDict([context |-> PyNone])
    /\ analysis.returned

\* the variables of the well-formed presets of a handler: those of its own
\* parameterPresets and those of its action
PresetsOf(x) == ListItems(Get(x, "parameterPresets", PyList(<<>>)))
VariablesOf(h) ==
    { n \in NamesIn(PresetsOf(h)) \cup
            (IF IsDict(Get(h, "action", PyNone))
             THEN NamesIn(PresetsOf(Get(h, "action", PyNone))) ELSE {}) :
        Hashable(n) }

\* C17: for a document with a well-formed top-level shape, the pages,
\* handlers and variables analyze_bot_json returns are exactly those of the
\* well-formed nodes: a flow, page, handler or preset that is not a mapping
\* or has no name, and a handlers or parameterPresets value that is not a
\* list, are skipped alone and never empty the whole result.
C17_AnalyzeSkipsAlone ==
    (pc = "analyzed" /\ WellFormedTop(data)) =>
        /\ Len(analysis.pages) = Cardinality(PageSites(data))
        /\ SeqToSet(analysis.pages) =
              { <<FlowsOf(data)[s[1]].v.name, SitePage(data, s).v.name>> :
                    s \in PageSites(data) }
        /\ Len(analysis.handlers) = Cardinality(HandlerSites(data))
        /\ SeqToSet(analysis.handlers) =
              { SiteHandler(data, s) : s \in HandlerSites(data) }
        /\ SeqToSet(analysis.variables) =
              UNION { VariablesOf(SiteHandler(data, s)) : s \in HandlerSites(data) }

\* the document has a context mapping
HasContext(d) == IsDict(d) /\ "context" \in DOMAIN d.v /\ IsDict(d.v.context)

\* the intent declarations of a document, openIntents and userIntents
\* together, and its entity declarations: the mappings with a non-empty name
Declarations(items) ==
    LET Declares(x) == IsDict(x) /\ Truthy(Get(x, "name", PyNone))
    IN  SelectSeq(items, Declares)
IntentDeclarations(d) ==
    Declarations(ListItems(Get(d.v.context, "openIntents", PyList(<<>>)))
                 \o ListItems(Get(d.v.context, "userIntents", PyList(<<>>))))
EntityDeclarations(d) ==
    Declarations(ListItems(Get(d.v.context, "customEntities", PyList(<<>>))))

\* two declarations carry the same name
SameNameTwice(decls) ==
    \E i, j \in 1..Len(decls) : i < j /\ decls[i].v.name = decls[j].v.name

\* C18: the summary reports a duplicate-intent finding if and only if at
\* least two intent declarations, of openIntents and userIntents together,
\* carry the same non-empty name.
C18_DuplicateIntent ==
    (pc = "summarized" /\ HasContext(data)) =>
        ((\E i \in 1..Len(summary.intent_errors) :
              summary.intent_errors[i] = DuplicateIntent)
         <=> SameNameTwice(IntentDeclarations(data)))

\* the declared names, and the names the handlers of the document use
DeclaredNames(decls) == { decls[i].v.name : i \in 1..Len(decls) }
InSomeCondition(d, n) ==
    \E s \in HandlerSites(d) :
        /\ IsStr(CondOf(SiteHandler(d, s)))
        /\ IsStr(n)
        /\ Contains(CondOf(SiteHandler(d, s)).v, n.v)
IsSomeTrigger(d, n) ==
    \E s \in HandlerSites(d) :
        /\ IsDict(Get(SiteHandler(d, s), "intentTrigger", PyNone))
        /\ Get(SiteHandler(d, s).v.intentTrigger, "name", PyNone) = n
UnusedIntents(d) ==
    { n \in DeclaredNames(IntentDeclarations(d)) :
        ~IsSomeTrigger(d, n) /\ ~InSomeCondition(d, n) }
UnusedEntities(d) ==
    { n \in DeclaredNames(EntityDeclarations(d)) : ~InSomeCondition(d, n) }

\* the findings of a table that list exactly the names of a set
Lists(fs, Unused(_), names) ==
    \E i \in 1..Len(fs) : \E l \in ListsOf(names) :
        /\ \A k \in 1..Len(l) : IsStr(l[k])
        /\ fs[i] = Unused(Join(CommaSpace, [k \in 1..Len(l) |-> l[k].v]))
Mentions(fs, Unused(_)) ==
    \E i \in 1..Len(fs) : StartsWith(fs[i].error, Unused(<<>>).error)

\* C19: the summary reports an unused-intent (unused-entity) finding if and
\* only if some declared intent (entity) name is never used; an intent is
\* used when it is the intentTrigger.name of a well-formed handler or a
\* substring of the conditionStatement of a handler, an entity when it is a
\* substring of a conditionStatement; the finding lists exactly the declared
\* names that are not used.
C19_UnusedNames ==
    (pc = "summarized" /\ WellFormedTop(data)) =>
        /\ Mentions(summary.intent_errors, UnusedIntent) <=> UnusedIntents(data) # {}
        /\ UnusedIntents(data) # {} =>
              Lists(summary.intent_errors, UnusedIntent, UnusedIntents(data))
        /\ Mentions(summary.entity_errors, UnusedEntity) <=> UnusedEntities(data) # {}
        /\ UnusedEntities(data) # {} =>
              Lists(summary.entity_errors, UnusedEntity, UnusedEntities(data))

\* the suggestion the claim gives a finding sent to the oracle, for one
\* outcome of the call
OracleSuggestion(key, outcome) ==
    IF ~key THEN AiPrefix \o <<" ">> \o KeyNotSet
    ELSE IF ~outcome.ok
    THEN AiPrefix \o <<" ">> \o <<"[OpenAI error: ">> \o outcome.text \o <<"]">>
    ELSE IF "none" \in DOMAIN outcome
    THEN AiPrefix \o <<" ">> \o <<"[OpenAI error: ">>
            \o <<"'NoneType' object has no attribute 'strip'">> \o <<"]">>
    ELSE IF StartsWith(Strip(outcome.text), AiPrefix) THEN Strip(outcome.text)
    ELSE AiPrefix \o <<" ">> \o Strip(outcome.text)

\* suggest_fixes is at a finding that it sends to the oracle
AtOracleFinding ==
    /\ pc = "suggesting"
    /\ idx <= Len(errors)
    /\ use_openai
    /\ errors[idx].type \in OracleKinds

\* the kinds of findings suggest_fixes has a suggestion for
SuggestedKinds == {"PageLinkError", "HandlerMissing", "ConditionError", "CustomCheck"}

\* C20: suggest_fixes with use_openai set never raises because of the
\* oracle: when the credential is missing or the call fails,
\* openai_suggest_fix returns the error text and that text, after the
\* marker, is the suggestion appended for the finding; the loop goes on and
\* the suggestions of the remaining findings are still produced.
C20_OracleFailureIsText ==
    /\ [](pc = "crashed" => idx = 0)
    /\ [][AtOracleFinding =>
            /\ pc' = "suggesting"
            /\ idx' = idx + 1
            /\ \E outcome \in OracleOutcomes :
                  suggestions' = Append(suggestions, OracleSuggestion(api_key, outcome))
            /\ ~api_key =>
                  suggestions' = Append(suggestions, AiPrefix \o <<" ">> \o KeyNotSet)]_vars
    /\ []((pc = "done" /\ use_openai) =>
            Len(suggestions) =
                Cardinality({ i \in 1..Len(errors) :
                                errors[i].type \in OracleKinds \cup SuggestedKinds }))

\* suggest_fixes has returned after a failed call of the oracle: the error
\* text is the suggestion of the first finding and the suggestion of the
\* second one follows it
C20_Witness ==
    /\ pc = "done"
    /\ use_openai
    /\ api_key
    /\ Len(suggestions) >= 2
    /\ suggestions[1] = AiPrefix \o <<" ", "[OpenAI error: ", "no network", "]">>

\* the registries of a document are built without an exception
RegistriesBuilt(d) ==
    /\ ~Raised(AllIntents(d.v.context).exc)
    /\ ~Raised(CollectPageNames(FlowsOf(d), {}).exc)

\* the findings of the page at s, evaluated on its own with the registries
\* of the document: all of them if nothing is raised, those appended before
\* the exception otherwise
PageFindings(d, s, o) ==
    CheckPage(SitePage(d, s), FlowsOf(d)[s[1]].v.name, d.v.context,
              CollectPageNames(FlowsOf(d), {}).val,
              AllIntents(d.v.context).val, o).errors

\* a finding occurs in a list of findings
Occurs(f, fs) == \E i \in 1..Len(fs) : fs[i] = f

\* C22: an exception raised while one page or handler is evaluated becomes
\* a ValidationError finding and does not stop the run: in every run on a
\* document with the context.flows shape whose registries are built, no
\* exception leaves the function, the findings of every well-formed page
\* are in the result, those of the pages after a failing one included, and
\* one CustomCheck finding per custom check is in the result.
C22_FailureDoesNotStopRun ==
    (pc = "validated" /\ WellFormedTop(data) /\ RegistriesBuilt(data)) =>
        /\ ~Raised(raised)
        /\ \A s \in PageSites(data) :
              \A i \in 1..Len(PageFindings(data, s, order)) :
                  Occurs(PageFindings(data, s, order)[i], errors)
        /\ IsList(custom_checks) =>
              Len(CustomFindings(errors)) = Len(custom_checks.v)

\* the positions of the CONDITION handlers with a non-empty condition
CheckedSites(d) ==
    { s \in HandlerSites(d) :
        /\ Get(SiteHandler(d, s), "type", PyNone) = PyStr(CONDITION)
        /\ Truthy(CondOf(SiteHandler(d, s))) }

\* one of the four checks of the handler at s raises: the condition is not
\* a string, or the reference check cannot read the presets or the entities
CheckRaises(d, s) ==
    \/ ~IsStr(CondOf(SiteHandler(d, s)))
    \/ Raised(ParameterReferenceCheck(CondOf(SiteHandler(d, s)).v,
                                      SiteHandler(d, s), d.v.context,
                                      AllIntents(d.v.context).val,
                                      SiteLocation(d, s)).exc)

\* a parse-failure finding
IsParseFailure(f) ==
    /\ f.type = "ConditionError"
    /\ f.suggestion = <<"check the format of the condition.">>

\* the findings of the operator check and of the function check of the
\* condition at s
RemainingChecks(d, s) ==
    LET c == CondOf(SiteHandler(d, s)).v
    IN  OperatorCheck(FindOperators(c), c, SiteLocation(d, s))
            \o FunctionCheck(FindFunctions(c), c, SiteLocation(d, s))

\* C23: when one of the four condition checks of a CONDITION handler
\* raises, exactly one parse-failure ConditionError is emitted for that
\* handler, the remaining checks of that handler are still run, and the run
\* continues with the following handlers and pages: in a run that no other
\* exception ends, every location has one parse failure per handler with a
\* raising check, the findings of the operator and function checks of a
\* string condition whose reference check raised are in the result, and so
\* are the IntentError and EventWarning findings of every handler.
C23_ParseFailureIsLocal ==
    (pc = "validated" /\ WellFormedTop(data) /\ NotAborted(errors)) =>
        /\ \A s \in CheckedSites(data) :
              LET loc == SiteLocation(data, s)
                  At(f) == IsParseFailure(f) /\ f.location = loc
              IN  /\ CountWhere(errors, At) =
                        Cardinality({ r \in CheckedSites(data) :
                                        /\ SiteLocation(data, r) = loc
                                        /\ CheckRaises(data, r) })
                  /\ (CheckRaises(data, s) /\ IsStr(CondOf(SiteHandler(data, s)))) =>
                        \A i \in 1..Len(RemainingChecks(data, s)) :
                            Occurs(RemainingChecks(data, s)[i], errors)
        /\ \A s \in HandlerSites(data) :
              /\ UndeclaredIntent(data, s) # PyNone =>
                    Occurs(IntentError(UndeclaredIntent(data, s),
                                       SiteLocation(data, s)), errors)
              /\ ForbiddenEvent(data, s) # PyNone =>
                    Occurs(EventWarning(ForbiddenEvent(data, s),
                                        SiteLocation(data, s), order), errors)

\* the sequences that hold the elements of a sequence in another order
Reorderings(seq) ==
    { [i \in 1..Len(seq) |-> seq[p[i]]] : p \in Permutations(1..Len(seq)) }

\* the document with other flows, the flow with other pages
WithFlows(d, fs) ==
    PyDict([d.v EXCEPT !.context =
               PyDict([d.v.context.v EXCEPT !.flows = PyList(fs)])])
WithPages(f, ps) == PyDict([f.v EXCEPT !.pages = PyList(ps)])

\* the documents obtained by putting the flows of a document, or the pages
\* of one of its flows, in another order
Reordered(d) ==
    { WithFlows(d, fs) : fs \in Reorderings(FlowsOf(d)) }
        \cup UNION { { WithFlows(d, [FlowsOf(d) EXCEPT ![i] = WithPages(FlowsOf(d)[i], ps)]) :
                         ps \in Reorderings(PagesOf(FlowsOf(d)[i])) } :
                     i \in { i \in 1..Len(FlowsOf(d)) :
                               /\ WellFormedFlow(FlowsOf(d)[i])
                               /\ IsList(FlowsOf(d)[i].v.pages) } }

\* the PageLinkErrors of a list of findings
LinkErrors(fs) == { fs[i] : i \in { i \in 1..Len(fs) : fs[i].type = "PageLinkError" } }

\* the handler at s links to a page that is defined after the page of s, in
\* the same flow or in a later flow
LinksForward(d, s) ==
    \E r \in PageSites(d) :
        /\ r[1] > s[1] \/ (r[1] = s[1] /\ r[2] > s[2])
        /\ Truthy(CustomTarget(SiteHandler(d, s)))
        /\ SitePage(d, r).v.name = CustomTarget(SiteHandler(d, s))

\* C24: the page registry is complete before the first link target is
\* checked and is not modified afterwards: a CUSTOM transition to a page
\* that is defined later in the same flow or in a later flow never produces
\* a PageLinkError, and the run on the document with its flows or its pages
\* in another order returns the same set of PageLinkErrors.
C24_RegistryBeforeChecks ==
    (pc = "validated" /\ WellFormedTop(data)) =>
        /\ \A s \in HandlerSites(data) :
              LinksForward(data, s) =>
                  ~Occurs(PageLinkError(CustomTarget(SiteHandler(data, s)),
                                        SiteLocation(data, s)), errors)
        /\ \A d \in Reordered(data) :
              LinkErrors(ValidateBotJson(d, custom_checks, order).errors)
                  = LinkErrors(errors)

\* the text with the marker in front, unless it starts with the marker
Marked(text) ==
    IF StartsWith(text, AiPrefix) THEN text ELSE AiPrefix \o <<" ">> \o text

\* C25: suggest_fixes calls the oracle only when use_openai is true and the
\* finding is a ConditionError, a PageLinkError or an IntentError; the
\* suggestion appended is then the text of the oracle with the marker in
\* front, the marker being added only when the text does not start with it
\* already, so that it starts with the marker and marking it again changes
\* nothing; with use_openai false the oracle is never called and the
\* suggestion of a PageLinkError, HandlerMissing, ConditionError or
\* CustomCheck finding is a text built from the fields of that finding.
C25_OracleOnlyWhenAsked ==
    [][/\ SuggestOracle =>
             /\ use_openai
             /\ errors[idx].type \in {"ConditionError", "PageLinkError", "IntentError"}
       /\ AtOracleFinding =>
             /\ \E outcome \in OracleOutcomes :
                   suggestions' = Append(suggestions,
                       Marked(openai_suggest_fix(api_key, outcome).val))
             /\ StartsWith(suggestions'[Len(suggestions')], AiPrefix)
             /\ Marked(suggestions'[Len(suggestions')]) = suggestions'[Len(suggestions')]
       /\ (pc = "suggesting" /\ idx <= Len(errors) /\ ~use_openai) =>
             /\ ~SuggestOracle
             /\ errors[idx].type \in SuggestedKinds =>
                   /\ Len(suggestions') = Len(suggestions) + 1
                   /\ <<suggestions'[Len(suggestions')]>> = LocalSuggestion(errors[idx])
      ]_vars

\* suggest_fixes has returned the suggestions of a run with the oracle in
\* which the first text of the oracle carried the marker already and the
\* second did not
C25_Witness ==
    /\ pc = "done"
    /\ use_openai
    /\ api_key
    /\ Len(suggestions) >= 2
    /\ suggestions[1] = <<"AI suggestion:", " ", "o", "k">>
    /\ suggestions[2] = <<"AI suggestion:", " ", "f", "i", "x">>

\* C26: the summary reports a duplicate-entity finding if and only if at
\* least two entity declarations of customEntities carry the same
\* non-empty name; a list whose named entries are pairwise distinct never
\* produces the finding, also when it holds an entry that is not a mapping
\* or an entry without a name.
C26_DuplicateEntity ==
    (pc = "summarized" /\ HasContext(data)) =>
        ((\E i \in 1..Len(summary.entity_errors) :
              summary.entity_errors[i] = DuplicateEntity)
         <=> SameNameTwice(EntityDeclarations(data)))

\* the finding belongs to a page: its location is "<flow> > <page>"
PageLocated(f) ==
    f.type \notin {"CustomCheck", "ValidationError", "DataStructureError"}

\* the three parts of the findings of a page: link targets, the missing
\* handler, the findings of the handlers
Phase(f) ==
    CASE f.type = "PageLinkError" -> 1
      [] f.type = "HandlerMissing" -> 2
      [] OTHER -> 3

\* the place of a finding among the findings of one handler; 0 for the
\* parse failure, which the order of the claim does not name
KindRank(f) ==
    CASE f.type = "IntentError" -> 1
      [] f.type = "ConditionError"
            /\ StartsWith(f.message, <<"the condition True must be written exactly 'True'. found: '">>) -> 2
      [] f.type = "ConditionWarning" -> 3
      [] f.type = "ConditionError"
            /\ StartsWith(f.message, <<"operator that is not allowed: ">>) -> 4
      [] f.type = "ConditionError"
            /\ StartsWith(f.message, <<"function that is not allowed: ">>) -> 5
      [] f.type = "EventWarning" -> 6
      [] OTHER -> 0

\* the pages at a location, and the document order of two pages
SitesAt(d, loc) == { s \in PageSites(d) : SiteLocation(d, s) = loc }
NotAfter(s, r) == s[1] < r[1] \/ (s[1] = r[1] /\ s[2] <= r[2])

\* the findings of the handler at s, and those of the handlers of the page
\* at s, handler by handler
HandlerFindings(d, s, o) ==
    CheckHandler(SiteHandler(d, s), d.v.context, AllIntents(d.v.context).val,
                 SiteLocation(d, s), o).errors
HandlerByHandler(d, s, o) ==
    Concat([k \in 1..Len(HandlersOf(SitePage(d, s))) |->
               IF IsDict(HandlersOf(SitePage(d, s))[k])
               THEN HandlerFindings(d, <<s[1], s[2], k>>, o) ELSE <<>>])

\* the findings of the handlers at a location, in the order of the list
HandlerLevel(fs, loc) ==
    LET Here(f) == PageLocated(f) /\ f.location = loc /\ Phase(f) = 3
    IN  SelectSeq(fs, Here)

IsPrefix(a, b) == Len(a) <= Len(b) /\ SubSeq(b, 1, Len(a)) = a

\* C28: the findings are in document order: the findings of an earlier
\* page come before those of a later page; within a page all
\* PageLinkErrors come first, then the HandlerMissing finding, then the
\* findings of the handlers, handler by handler; the findings of one
\* handler are in the order IntentError, boolean casing, ConditionWarning,
\* operator errors, function errors, EventWarning; all CustomCheck findings
\* come after every finding of a page.
C28_FindingsInDocumentOrder ==
    (pc = "validated" /\ WellFormedTop(data)) =>
        /\ \A i, j \in 1..Len(errors) :
              (i < j /\ PageLocated(errors[j])) =>
                  /\ errors[i].type # "CustomCheck"
                  /\ PageLocated(errors[i])
                  /\ \E s \in SitesAt(data, errors[i].location),
                         r \in SitesAt(data, errors[j].location) : NotAfter(s, r)
                  /\ (/\ errors[i].location = errors[j].location
                      /\ Cardinality(SitesAt(data, errors[i].location)) = 1) =>
                        Phase(errors[i]) <= Phase(errors[j])
        /\ \A s \in PageSites(data) :
              Cardinality(SitesAt(data, SiteLocation(data, s))) = 1 =>
                  /\ IsPrefix(HandlerLevel(errors, SiteLocation(data, s)),
                              HandlerByHandler(data, s, order))
                  /\ NotAborted(errors) =>
                        HandlerLevel(errors, SiteLocation(data, s))
                            = HandlerByHandler(data, s, order)
        /\ \A s \in HandlerSites(data) :
              \A i, j \in 1..Len(HandlerFindings(data, s, order)) :
                  (/\ i < j
                   /\ KindRank(HandlerFindings(data, s, order)[i]) # 0
                   /\ KindRank(HandlerFindings(data, s, order)[j]) # 0) =>
                      KindRank(HandlerFindings(data, s, order)[i])
                          <= KindRank(HandlerFindings(data, s, order)[j])

\* a run returned a condition finding of the first page, then the
\* PageLinkError of the second page, then the CustomCheck finding
C28_Witness ==
    /\ pc = "validated"
    /\ Len(errors) = 3
    /\ errors[1].type = "ConditionError"
    /\ errors[1].location = Location(PyStr(F1), PyStr(P1))
    /\ errors[2].type = "PageLinkError"
    /\ errors[2].location = Location(PyStr(F1), PyStr(P2))
    /\ errors[3].type = "CustomCheck"

\* a finding of the operator check
IsOperatorError(f) ==
    /\ f.type = "ConditionError"
    /\ StartsWith(f.message, <<"operator that is not allowed: ">>)

\* C29: every token the operator pattern can return is in the operator
\* allow-list, so the operator check adds no finding for any input: no run
\* returns a finding of the operator check, and for every condition, those
\* that use '%', '=' or '&&' included, the tokens extracted are allowed and
\* the operator check contributes nothing to the findings of the condition.
C29_OperatorCheckAddsNothing ==
    /\ \A k \in 1..Len(OperatorPattern) : OperatorPattern[k] \in allowed_operators
    /\ (pc = "validated" /\ WellFormedTop(data)) =>
          /\ \A i \in 1..Len(errors) : ~IsOperatorError(errors[i])
          /\ \A s \in ConditionSites(data) :
                LET c == CondOf(SiteHandler(data, s)).v
                IN  /\ SeqToSet(FindOperators(c)) \subseteq allowed_operators
                    /\ OperatorCheck(FindOperators(c), c, SiteLocation(data, s)) = <<>>

\* a run on the condition '&&==' returned no finding: '==' is extracted and
\* allowed, '&&' is not extracted
C29_Witness ==
    /\ pc = "validated"
    /\ errors = <<>>
    /\ \E s \in ConditionSites(data) :
          /\ CondOf(SiteHandler(data, s)).v = <<"&", "&", "=", "=">>
          /\ FindOperators(CondOf(SiteHandler(data, s)).v) = << <<"=", "=">> >>

\* the names declared by the presets of the action of a handler
ActionPresetNames(h) ==
    IF IsDict(Get(h, "action", PyNone))
    THEN NamesIn(ListItems(Get(h.v.action, "parameterPresets", PyList(<<>>))))
    ELSE {}

\* a ConditionWarning at the location of s that lists the unresolved
\* references of the condition at s
WarnsAbout(f, d, s) ==
    /\ f.type = "ConditionWarning"
    /\ f.location = SiteLocation(d, s)
    /\ f.missing_vars = Unresolved(d, s)

\* C30: the parameter-reference check resolves references only against the
\* presets of the handler, the declared intents and the declared entities:
\* every ConditionWarning lists the references of a condition that are
\* none of these names and are not a sentinel, whether or not the name is
\* declared by the presets of the action of the handler, by the presets of
\* another handler, or is the reserved USER_TEXT_INPUT; a handler with such
\* a reference, whose check is run to its end, gets that warning; and
\* analyze_bot_json, when it does not fail, reports the names declared by
\* the presets of an action as variables of the document.
C30_ReferencesResolveLocally ==
    (pc = "validated" /\ WellFormedTop(data)) =>
        /\ \A i \in 1..Len(errors) :
              errors[i].type = "ConditionWarning" =>
                  \E s \in ConditionSites(data) :
                      /\ Unresolved(data, s) # <<>>
                      /\ WarnsAbout(errors[i], data, s)
        /\ \A s \in ConditionSites(data) :
              (/\ NotAborted(errors)
               /\ ~CheckRaises(data, s)
               /\ Unresolved(data, s) # <<>>) =>
                  \E i \in 1..Len(errors) : WarnsAbout(errors[i], data, s)
        /\ \A s \in HandlerSites(data) :
              analyze_bot_json(data).handlers # <<>> =>
                  ActionPresetNames(SiteHandler(data, s))
                      \subseteq analyze_bot_json(data).variables

\* a run returned the warnings of three handlers: x is declared by the
\* presets of the action of the first handler and is a variable of the
\* analysis, and it is missing for the first handler; USER_TEXT_INPUT is
\* missing for the second
C30_Witness ==
    /\ pc = "validated"
    /\ Len(errors) = 2
    /\ errors[1].type = "ConditionWarning"
    /\ errors[1].missing_vars = << <<"x">> >>
    /\ errors[2].type = "ConditionWarning"
    /\ errors[2].missing_vars = <<USER_TEXT_INPUT>>
    /\ \E s \in ConditionSites(data) :
          /\ s[3] = 1
          /\ PyStr(<<"x">>) \in ActionPresetNames(SiteHandler(data, s))
    /\ PyStr(<<"x">>) \in analyze_bot_json(data).variables

\* the calls of the typo check that returned their results to the main
\* thread, and the calls that returned results in their thread
Merged == { i \in 1..Len(futures) : futures[i].yielded > 0 /\ ~Raised(futures[i].exc) }
Succeeded ==
    { i \in 1..Len(futures) : futures[i].state = "finished" /\ ~Raised(futures[i].exc) }

\* the entries that the results of a set of calls give, whatever the order
\* of the calls: the key of a result is its flow and its normalized text,
\* and the entry of a key is the last result of its flow with that text
KeysOf(i) ==
    { <<flow_groups[i].flow, normalize_text(futures[i].results[k].text)>> :
        k \in 1..Len(futures[i].results) }
EntriesOf(calls) ==
    [key \in UNION { KeysOf(i) : i \in calls } |->
        LET i == CHOOSE i \in calls : flow_groups[i].flow = key[1]
            rs == futures[i].results
            last == CHOOSE k \in 1..Len(rs) :
                        /\ normalize_text(rs[k].text) = key[2]
                        /\ \A m \in (k + 1)..Len(rs) : normalize_text(rs[m].text) # key[2]
        IN  <<rs[last].typo, rs[last].reason>>]

\* C21: the calls of the parallel typo check are independently fallible:
\* if the call of one flow fails, the failure is not propagated out of the
\* batch, and the results of every other flow whose call succeeds are
\* still merged into typo_results, for every completion order.
C21_FailureStaysInBatch ==
    /\ pc # "crashed"
    /\ pc \in {"done", "crashed"} => typo_results = EntriesOf(Succeeded)

\* C27: when every call of the parallel typo check succeeds, the final
\* typo_results is the same for every completion order: at every moment
\* typo_results holds the entries of the calls merged so far, each under
\* the keys of its own flow and with the values of its own flow, and after
\* the last call it holds the entries of all calls.
C27_OrderIndependent ==
    pc \in {"merging", "unwinding", "done", "crashed"} =>
        /\ typo_results = EntriesOf(Merged)
        /\ (pc = "done" /\ \A i \in 1..Len(futures) : ~Raised(futures[i].exc)) =>
              /\ Merged = 1..Len(futures)
              /\ typo_results = EntriesOf(1..Len(futures))

\* two calls succeeded and the second flow was merged first; both flows
\* hold a result with the normalized text 'abc', with a typo in the first
\* flow and without one in the second
C27_Witness ==
    /\ pc = "done"
    /\ Len(futures) = 2
    /\ futures[2].yielded = 1
    /\ futures[1].yielded = 2
    /\ <<FlowName(1), <<"a","b","c">>>> \in DOMAIN typo_results
    /\ <<FlowName(2), <<"a","b","c">>>> \in DOMAIN typo_results
    /\ typo_results[<<FlowName(1), <<"a","b","c">>>>][1]
    /\ ~typo_results[<<FlowName(2), <<"a","b","c">>>>][1]

====
